---- MODULE Spec2Model ----
(***************************************************************************)
(* Configuration State & Compliance Engine                                 *)
(* (network_automation_agents/tools/configuration.py), followed by the     *)
(* patching workflow (tools/lifecycle.py), protocol selection              *)
(* (tools/network_interaction.py) and crew assembly (crew_setup.py).       *)
(*                                                                         *)
(* Text is a sequence of tokens (strings); the empty text is << >>.        *)
(* An optional value is a sequence of length 0 (absent) or 1 (present).    *)
(***************************************************************************)
EXTENDS Integers, Sequences, FiniteSets, TLC

\* ----------------------------------------------------------------- bounds
NumCallers == 2
MaxVersions == 3
MaxLines == 2

\* ----------------------------------------------------------------- inputs
Procs == 1..NumCallers
Devices == {"r1", "r2"}
Contents == {<<"cfgA">>, <<"cfgB">>}
Messages == {<<"msg1">>, <<"msg2">>}
Times == {"T1", "T2"}
BackupDevices == {"r1"}

Absent == << >>
Some(x) == <<x>>

\* Optional[str] commit_hash: None is 0, a hexsha is the commit's position
\* in the history (unique per commit).
NoHash == 0

\* ------------------------------------------------------------ ToolOutput
\* models/tool_io.py: ToolOutput(success, data, error)
ToolOutputOk(data) == [success |-> TRUE, data |-> Some(data), error |-> Absent]

ToolOutputFail(message) == [success |-> FALSE, data |-> Absent, error |-> Some(message)]

NoResult == [success |-> FALSE, data |-> Absent, error |-> Absent]

\* ConfigBackupResult(device, path, commit_hash)
FilePath(device) == <<"configs/", device, ".cfg">>

ConfigBackupResult(device, commit_hash) ==
    [device |-> device, path |-> FilePath(device), commit_hash |-> commit_hash]

\* ------------------------------------------------------- Python values
\* What a fetcher hands back as content: None, a str, or structured data
\* (a dict, as its items in insertion order).
PyNone == [type |-> "NoneType", text |-> << >>, items |-> << >>]

PyStr(t) == [type |-> "str", text |-> t, items |-> << >>]

PyDict(items) == [type |-> "dict", text |-> << >>, items |-> items]

StructuredValues ==
    { PyDict(<< <<"hostname", "R1">>, <<"mtu", "1500">> >>),
      PyDict(<< <<"mtu", "1500">>, <<"hostname", "R1">> >>) }

FetchedValues == {PyNone} \cup {PyStr(t) : t \in {<< >>, <<"cfgA">>}} \cup StructuredValues

\* Callable[[str], ToolOutput | str]: a ToolOutput (ok or failed) or a bare value
FetcherReturns ==
    [isToolOutput : {TRUE}, out : {ToolOutputOk(v) : v \in FetchedValues}
                                   \cup {ToolOutputFail(<<"fetch failed">>)}, value : {PyNone}]
    \cup [isToolOutput : {FALSE}, out : {NoResult}, value : FetchedValues]

\* Configuration lines of the drift checks, as characters
ConfigLines ==
    { <<"h", "R", "1">>, <<"n", "t", "p">>, <<"+", "+", "x">>, <<"-", "-", "y">> }

\* Order of dict keys under sort_keys=True
KeyRank(k) == CASE k = "hostname" -> 1 [] k = "mtu" -> 2 [] OTHER -> 3

RECURSIVE InsertSorted(_, _)
InsertSorted(item, sorted) ==
    IF sorted = << >> THEN <<item>>
    ELSE IF KeyRank(item[1]) <= KeyRank(Head(sorted)[1]) THEN <<item>> \o sorted
    ELSE <<Head(sorted)>> \o InsertSorted(item, Tail(sorted))

RECURSIVE SortItems(_)
SortItems(items) ==
    IF items = << >> THEN << >> ELSE InsertSorted(Head(items), SortItems(Tail(items)))

RECURSIVE RenderItems(_)
RenderItems(items) ==
    IF items = << >> THEN << >>
    ELSE <<"\n  ", "\"", Head(items)[1], "\"", ": ", "\"", Head(items)[2], "\"">>
         \o (IF Len(items) > 1 THEN <<",">> ELSE << >>)
         \o RenderItems(Tail(items))

JsonDumpsUnsorted(v) ==
    IF v.items = << >> THEN <<"{}">>
    ELSE <<"{">> \o RenderItems(v.items) \o <<"\n", "}">>

\* json.dumps(config_content, indent=2, sort_keys=True)
JsonDumps(v) ==
    IF v.items = << >> THEN <<"{}">>
    ELSE <<"{">> \o RenderItems(SortItems(v.items)) \o <<"\n", "}">>

RECURSIVE ItemTokens(_)
ItemTokens(items) ==
    IF items = << >> THEN << >>
    ELSE <<Head(items)[1], "=", Head(items)[2], ";">> \o ItemTokens(Tail(items))

\* The injected serializer: some caller-chosen encoding of the structured value
CustomSerializer(v) == ItemTokens(v.items)

VARIABLES
    env,        \* construction: what _try_load_repo finds (gitpython, valid), whether a
                \* serializer is injected, the drift tool's ignore_patterns and what
                \* its two sources hand back
    repo,       \* VersionControlTool._repo is not None
    file,       \* working tree: device -> optional text of configs/<device>.cfg
    index,      \* git index: device -> optional staged blob
    head,       \* tree of the HEAD commit: device -> optional blob
    versions,   \* commit history, oldest first: each commit's message (HEAD's tree is head)
    pc,         \* per caller: position inside commit_config
    call,       \* per caller: arguments and locals of the running call
    res,        \* the operation that finished last: its caller, its call, what it returned
    last        \* history: per device, the last commit_config call that returned
                \* (and what the fetcher had handed back, for a backup)

vars == <<env, repo, file, index, head, versions, pc, call, res, last>>

\* ----------------------------------------------------- VersionControlTool
TryLoadRepoAlwaysAttached(gitpython, valid) == TRUE

\* _try_load_repo: None when GitPython is missing or the path is no repository
TryLoadRepo(gitpython, valid) ==
    IF ~gitpython THEN FALSE
    ELSE IF ~valid THEN FALSE
    ELSE TRUE

NoCall == [op |-> "none", device |-> "r1", content |-> << >>, message |-> << >>,
           commit_hash |-> NoHash, fetched |-> Absent, wrote |-> FALSE,
           prevCommitted |-> Absent, prevCall |-> Absent, created |-> << >>,
           failedStep |-> "none"]

\* A source that hands back None
NoSource == [isToolOutput |-> FALSE, out |-> NoResult, value |-> PyNone]

InitWith(envs) ==
    /\ env \in envs
    /\ repo = TryLoadRepo(env.gitpython, env.valid)
    /\ file = [d \in Devices |-> Absent]
    /\ index = [d \in Devices |-> Absent]
    /\ head = [d \in Devices |-> Absent]
    /\ versions = << >>
    /\ pc = [p \in Procs |-> "idle"]
    /\ call = [p \in Procs |-> NoCall]
    /\ res = [proc |-> 0, out |-> NoResult, raised |-> Absent, call |-> NoCall,
              fileAtReturn |-> Absent, drift |-> Absent]
    /\ last = [d \in Devices |-> Absent]

\* A store with no serializer to call
Init == InitWith([gitpython : BOOLEAN, valid : BOOLEAN, serializer : {FALSE},
                  ignore_patterns : {<< >>},
                  running_config_fetcher : {NoSource}, baseline_loader : {NoSource}])

\* A store behind a ConfigBackupTool, with or without an injected serializer
InitBackup == InitWith([gitpython : BOOLEAN, valid : BOOLEAN, serializer : BOOLEAN,
                        ignore_patterns : {<< >>},
                        running_config_fetcher : {NoSource}, baseline_loader : {NoSource}])

\* Repo.untracked_files: files in the working tree that the index does not hold
UntrackedFiles(f, idx) == {d \in Devices : f[d] /= Absent /\ idx[d] = Absent}

IsDirtyAlways(f, idx, hd) == TRUE

IsDirtyWorkingTree(f, idx, hd) == \E d \in Devices : idx[d] /= Absent /\ f[d] /= idx[d]

\* Repo.is_dirty(index=True, working_tree=False, untracked_files=True):
\* the index differs from HEAD, or any file of the repository is untracked
IsDirty(f, idx, hd) == idx /= hd \/ UntrackedFiles(f, idx) /= {}

InFlight == {p \in Procs : pc[p] /= "idle"}

\* Callers run one operation at a time.
Sequential == InFlight = {}

\* Callers keep at most one commit in flight per device.
OnePerDevice(d) == \A q \in InFlight : call[q].device /= d

HistoryRoom == Len(versions) + Cardinality(InFlight) < MaxVersions

\* The operation ends by returning out.
Finish(p, out) ==
    /\ res' = [proc |-> p, out |-> out, raised |-> Absent, call |-> call[p],
                fileAtReturn |-> file[call[p].device], drift |-> Absent]
    /\ pc' = [pc EXCEPT ![p] = "idle"]
    /\ call' = [call EXCEPT ![p] = NoCall]

\* The operation ends with exception exc leaving it.
Raise(p, exc) ==
    /\ res' = [proc |-> p, out |-> NoResult, raised |-> Some(exc), call |-> call[p],
                fileAtReturn |-> file[call[p].device], drift |-> Absent]
    /\ pc' = [pc EXCEPT ![p] = "idle"]
    /\ call' = [call EXCEPT ![p] = NoCall]

\* commit_config(device, config_content, commit_message): entry
Enter(p, op, d, c, m, fetched) ==
    /\ pc[p] = "idle"
    /\ HistoryRoom
    /\ call' = [call EXCEPT ![p] =
                  [NoCall EXCEPT !.op = op, !.device = d, !.content = c, !.message = m,
                                 !.fetched = fetched,
                                 !.prevCommitted = head[d], !.prevCall = last[d]]]
    /\ pc' = [pc EXCEPT ![p] = "write"]

CommitConfig(p, d, c, m) ==
    /\ Enter(p, "commit_config", d, c, m, Absent)
    /\ UNCHANGED <<env, repo, file, index, head, versions, res, last>>

WriteTextOneFileForAll(p) ==
    /\ pc[p] = "write"
    /\ file' = [d \in Devices |-> Some(call[p].content)]
    /\ call' = [call EXCEPT ![p].wrote = TRUE, ![p].commit_hash = NoHash]
    /\ pc' = [pc EXCEPT ![p] = IF repo THEN "add" ELSE "return"]
    /\ UNCHANGED <<env, repo, index, head, versions, res, last>>

\* lines 60-64: mkdir, write_text, commit_hash = None
WriteText(p) ==
    /\ pc[p] = "write"
    /\ file' = [file EXCEPT ![call[p].device] = Some(call[p].content)]
    /\ call' = [call EXCEPT ![p].wrote = TRUE, ![p].commit_hash = NoHash]
    /\ pc' = [pc EXCEPT ![p] = IF repo THEN "add" ELSE "return"]
    /\ UNCHANGED <<env, repo, index, head, versions, res, last>>

\* line 63 raising OSError: nothing in commit_config catches it
WriteTextRaises(p) ==
    /\ pc[p] = "write"
    /\ Raise(p, "OSError")
    /\ UNCHANGED <<env, repo, file, index, head, versions, last>>

\* line 69: repo.index.add([rel_path]) stages the file as it is on disk
IndexAdd(p) ==
    /\ pc[p] = "add"
    /\ index' = [index EXCEPT ![call[p].device] = file[call[p].device]]
    /\ pc' = [pc EXCEPT ![p] = "is_dirty"]
    /\ UNCHANGED <<env, repo, file, head, versions, call, res, last>>

\* line 70: repo.is_dirty(index=True, working_tree=False, untracked_files=True)
CheckDirty(p) ==
    /\ pc[p] = "is_dirty"
    /\ pc' = [pc EXCEPT ![p] = IF IsDirty(file, index, head) THEN "commit" ELSE "return"]
    /\ UNCHANGED <<env, repo, file, index, head, versions, call, res, last>>

\* lines 71-72: repo.index.commit(commit_message) commits the whole index
IndexCommit(p) ==
    /\ pc[p] = "commit"
    /\ versions' = Append(versions, call[p].message)
    /\ head' = index
    /\ call' = [call EXCEPT ![p].commit_hash = Len(versions) + 1,
                            ![p].created = Append(@, Len(versions) + 1)]
    /\ pc' = [pc EXCEPT ![p] = "return"]
    /\ UNCHANGED <<env, repo, file, index, res, last>>

GitCommandEscapes(p) ==
    /\ pc[p] \in {"add", "is_dirty", "commit"}
    /\ res' = [proc |-> p, out |-> NoResult, raised |-> Some("GitCommandError"),
                call |-> [call[p] EXCEPT !.failedStep = pc[p]],
                fileAtReturn |-> file[call[p].device], drift |-> Absent]
    /\ pc' = [pc EXCEPT ![p] = "idle"]
    /\ call' = [call EXCEPT ![p] = NoCall]
    /\ UNCHANGED <<env, repo, file, index, head, versions, last>>

\* lines 76-77: a GitCommandError from add, is_dirty or commit is caught and logged
GitCommandFails(p) ==
    /\ pc[p] \in {"add", "is_dirty", "commit"}
    /\ call' = [call EXCEPT ![p].failedStep = pc[p]]
    /\ pc' = [pc EXCEPT ![p] = "return"]
    /\ UNCHANGED <<env, repo, file, index, head, versions, res, last>>

\* lines 79-80
Return(p) ==
    /\ pc[p] = "return"
    /\ Finish(p, ToolOutputOk(ConfigBackupResult(call[p].device, call[p].commit_hash)))
    /\ last' = [last EXCEPT ![call[p].device] =
                   Some([content |-> call[p].content, success |-> TRUE,
                         fetched |-> call[p].fetched])]
    /\ UNCHANGED <<env, repo, file, index, head, versions>>

\* --------------------------------------------------------- ConfigBackupTool
BackupMessage(d, t) == <<"AUTOBACKUP: Configuration backup for ", d, " @ ", t, "Z">>

\* lines 99-104: the content a fetcher's return carries
FetchedContent(fetched) ==
    IF fetched.isToolOutput THEN fetched.out.data[1] ELSE fetched.value

\* lines 107-111
AsText(v, customSerializer) ==
    IF v.type = "str" THEN v.text
    ELSE IF ~customSerializer THEN JsonDumps(v)
    ELSE CustomSerializer(v)

FetcherFailureReplaced(fetched) == ToolOutputFail(<<"No configuration content returned">>)

\* lines 100-101: return fetched
FetcherFailure(fetched) == fetched.out

\* backup_config(device), up to its call of commit_config
BackupConfig(p, d, fetched, t) ==
    /\ pc[p] = "idle"
    /\ IF fetched.isToolOutput /\ ~fetched.out.success
       THEN /\ res' = [proc |-> p, out |-> FetcherFailure(fetched), raised |-> Absent,
                        call |-> [NoCall EXCEPT !.op = "backup_config", !.device = d,
                                                !.fetched = Some(fetched)],
                        fileAtReturn |-> file[d], drift |-> Absent]
            /\ UNCHANGED <<pc, call>>
       ELSE IF FetchedContent(fetched).type = "NoneType"
       THEN /\ res' = [proc |-> p,
                        out |-> ToolOutputFail(<<"No configuration content returned">>),
                        raised |-> Absent,
                        call |-> [NoCall EXCEPT !.op = "backup_config", !.device = d,
                                                !.fetched = Some(fetched)],
                        fileAtReturn |-> file[d], drift |-> Absent]
            /\ UNCHANGED <<pc, call>>
       ELSE /\ Enter(p, "backup_config", d, AsText(FetchedContent(fetched), env.serializer),
                     BackupMessage(d, t), Some(fetched))
            /\ UNCHANGED res
    /\ UNCHANGED <<env, repo, file, index, head, versions, last>>

\* line 98: the fetcher raises; backup_config has no handler
BackupFetcherRaises(p, d) ==
    /\ pc[p] = "idle"
    /\ res' = [proc |-> p, out |-> NoResult, raised |-> Some("fetcher"),
                call |-> [NoCall EXCEPT !.op = "backup_config", !.device = d],
                fileAtReturn |-> file[d], drift |-> Absent]
    /\ UNCHANGED <<env, repo, file, index, head, versions, pc, call, last>>

\* line 111: the injected serializer raises; backup_config has no handler
BackupSerializerRaises(p, d, fetched) ==
    /\ pc[p] = "idle"
    /\ env.serializer
    /\ ~(fetched.isToolOutput /\ ~fetched.out.success)
    /\ FetchedContent(fetched).type \notin {"NoneType", "str"}
    /\ res' = [proc |-> p, out |-> NoResult, raised |-> Some("serializer"),
                call |-> [NoCall EXCEPT !.op = "backup_config", !.device = d,
                                        !.fetched = Some(fetched)],
                fileAtReturn |-> file[d], drift |-> Absent]
    /\ UNCHANGED <<env, repo, file, index, head, versions, pc, call, last>>

\* ------------------------------------------------- ConfigDriftDetectionTool
\* Drift texts and lines are sequences of one-character tokens.
NL == "\n"

\* str.splitlines(): the lines of a text, without their line ends; a final
\* line end opens no further line
RECURSIVE SplitFrom(_, _, _)
SplitFrom(text, k, cur) ==
    IF k > Len(text) THEN (IF cur = << >> THEN << >> ELSE <<cur>>)
    ELSE IF text[k] = NL THEN <<cur>> \o SplitFrom(text, k + 1, << >>)
    ELSE SplitFrom(text, k + 1, Append(cur, text[k]))

SplitLines(text) == SplitFrom(text, 1, << >>)

\* "\n".join(lines)
RECURSIVE JoinLines(_)
JoinLines(lines) ==
    IF lines = << >> THEN << >>
    ELSE IF Len(lines) = 1 THEN lines[1]
    ELSE lines[1] \o <<NL>> \o JoinLines(Tail(lines))

\* str(x) of a fetched value
PyStrOf(v) == IF v.type = "str" THEN v.text ELSE <<"N", "o", "n", "e">>

StartsWith(line, prefix) ==
    Len(line) >= Len(prefix) /\ SubSeq(line, 1, Len(prefix)) = prefix

\* pattern.search(line) for a pattern that is a literal, anchored by ^ or not
Search(pattern, line) ==
    IF pattern.anchored THEN StartsWith(line, pattern.lit)
    ELSE \E k \in 1..(Len(line) - Len(pattern.lit) + 1) :
            SubSeq(line, k, k + Len(pattern.lit) - 1) = pattern.lit

\* _filter_lines
FilterLines(lines, patterns) ==
    IF patterns = << >> THEN lines
    ELSE SelectSeq(lines, LAMBDA line :
                     ~\E k \in 1..Len(patterns) : Search(patterns[k], line))

ResolveNoneIsValue(value, label) ==
    IF value.isToolOutput THEN value.out ELSE ToolOutputOk(value.value)

\* _resolve: a ToolOutput as it is, None as a failure, a value as ok(value)
Resolve(value, label) ==
    IF value.isToolOutput THEN value.out
    ELSE IF value.value.type = "NoneType" THEN ToolOutputFail(<<label, " not available">>)
    ELSE ToolOutputOk(value.value)

\* difflib.SequenceMatcher: length of the common run starting at a[i], b[j]
\* (0-based) inside a[:ahi], b[:bhi]
RECURSIVE MatchLen(_, _, _, _, _, _)
MatchLen(a, b, i, j, ahi, bhi) ==
    IF i < ahi /\ j < bhi /\ a[i + 1] = b[j + 1]
    THEN 1 + MatchLen(a, b, i + 1, j + 1, ahi, bhi)
    ELSE 0

\* find_longest_match: the longest block, earliest in a, then earliest in b;
\* (alo, blo, 0) when nothing matches
FindLongestMatch(a, b, alo, ahi, blo, bhi) ==
    LET cands == (alo..(ahi - 1)) \X (blo..(bhi - 1))
        size(c) == MatchLen(a, b, c[1], c[2], ahi, bhi)
        best == IF cands = {} THEN 0
                ELSE CHOOSE k \in {size(c) : c \in cands} :
                        \A c \in cands : size(c) <= k
    IN  IF best = 0 THEN <<alo, blo, 0>>
        ELSE LET longest == {c \in cands : size(c) = best}
                 first == CHOOSE c \in longest :
                            \A o \in longest :
                               c[1] < o[1] \/ (c[1] = o[1] /\ c[2] <= o[2])
             IN  <<first[1], first[2], best>>

\* get_matching_blocks, before the closing (la, lb, 0): the longest match, then
\* the blocks left of it and right of it, in order
RECURSIVE MatchingBlocks(_, _, _, _, _, _)
MatchingBlocks(a, b, alo, ahi, blo, bhi) ==
    LET m == FindLongestMatch(a, b, alo, ahi, blo, bhi)
    IN  IF m[3] = 0 THEN << >>
        ELSE (IF alo < m[1] /\ blo < m[2]
              THEN MatchingBlocks(a, b, alo, m[1], blo, m[2]) ELSE << >>)
             \o <<m>>
             \o (IF m[1] + m[3] < ahi /\ m[2] + m[3] < bhi
                 THEN MatchingBlocks(a, b, m[1] + m[3], ahi, m[2] + m[3], bhi)
                 ELSE << >>)

\* get_matching_blocks: adjacent blocks collapsed
RECURSIVE Collapse(_)
Collapse(blocks) ==
    IF Len(blocks) < 2 THEN blocks
    ELSE LET x == blocks[1]
             y == blocks[2]
         IN  IF x[1] + x[3] = y[1] /\ x[2] + x[3] = y[2]
             THEN Collapse(<< <<x[1], x[2], x[3] + y[3]>> >> \o SubSeq(blocks, 3, Len(blocks)))
             ELSE <<x>> \o Collapse(Tail(blocks))

GetMatchingBlocks(a, b) ==
    Collapse(MatchingBlocks(a, b, 0, Len(a), 0, Len(b))) \o << <<Len(a), Len(b), 0>> >>

Opcode(tag, i1, i2, j1, j2) == [tag |-> tag, i1 |-> i1, i2 |-> i2, j1 |-> j1, j2 |-> j2]

\* get_opcodes
RECURSIVE OpcodesFrom(_, _, _)
OpcodesFrom(blocks, i, j) ==
    IF blocks = << >> THEN << >>
    ELSE LET ai == blocks[1][1]
             bj == blocks[1][2]
             size == blocks[1][3]
             change == IF i < ai /\ j < bj THEN <<Opcode("replace", i, ai, j, bj)>>
                       ELSE IF i < ai THEN <<Opcode("delete", i, ai, j, bj)>>
                       ELSE IF j < bj THEN <<Opcode("insert", i, ai, j, bj)>>
                       ELSE << >>
             equal == IF size > 0
                      THEN <<Opcode("equal", ai, ai + size, bj, bj + size)>> ELSE << >>
         IN  change \o equal \o OpcodesFrom(Tail(blocks), ai + size, bj + size)

GetOpcodes(a, b) == OpcodesFrom(GetMatchingBlocks(a, b), 0, 0)

Max(x, y) == IF x >= y THEN x ELSE y

Min(x, y) == IF x <= y THEN x ELSE y

\* get_grouped_opcodes: the loop over the opcodes, group being the open group
RECURSIVE GroupLoop(_, _, _)
GroupLoop(codes, group, n) ==
    IF codes = << >>
    THEN (IF group /= << >> /\ ~(Len(group) = 1 /\ group[1].tag = "equal")
          THEN <<group>> ELSE << >>)
    ELSE LET c == Head(codes)
         IN  IF c.tag = "equal" /\ c.i2 - c.i1 > n + n
             THEN <<Append(group, Opcode(c.tag, c.i1, Min(c.i2, c.i1 + n),
                                         c.j1, Min(c.j2, c.j1 + n)))>>
                  \o GroupLoop(Tail(codes),
                               <<Opcode(c.tag, Max(c.i1, c.i2 - n), c.i2,
                                        Max(c.j1, c.j2 - n), c.j2)>>, n)
             ELSE GroupLoop(Tail(codes), Append(group, c), n)

\* get_grouped_opcodes: no opcodes at all count as one equal run
OrOneEqual(codes) == IF codes = << >> THEN <<Opcode("equal", 0, 1, 0, 1)>> ELSE codes

\* get_grouped_opcodes: a leading equal run keeps its last n lines
TrimLeading(codes, n) ==
    IF codes[1].tag = "equal"
    THEN [codes EXCEPT ![1] = Opcode(@.tag, Max(@.i1, @.i2 - n), @.i2,
                                     Max(@.j1, @.j2 - n), @.j2)]
    ELSE codes

\* get_grouped_opcodes: a trailing equal run keeps its first n lines
TrimTrailing(codes, n) ==
    IF codes[Len(codes)].tag = "equal"
    THEN [codes EXCEPT ![Len(codes)] = Opcode(@.tag, @.i1, Min(@.i2, @.i1 + n),
                                              @.j1, Min(@.j2, @.j1 + n))]
    ELSE codes

\* get_grouped_opcodes(n)
GetGroupedOpcodes(a, b, n) ==
    GroupLoop(TrimTrailing(TrimLeading(OrOneEqual(GetOpcodes(a, b)), n), n), << >>, n)

\* _format_range_unified
FormatRangeUnified(start, stop) ==
    LET length == stop - start
    IN  IF length = 1 THEN <<ToString(start + 1)>>
        ELSE IF length = 0 THEN <<ToString(start), ",", ToString(length)>>
        ELSE <<ToString(start + 1), ",", ToString(length)>>

\* One line of the diff: its text, and what unified_diff emitted it as.
DiffLine(kind, text) == [kind |-> kind, text |-> text]

Prefixed(kind, mark, lines) == [k \in 1..Len(lines) |-> DiffLine(kind, <<mark>> \o lines[k])]

Slice(seq, lo, hi) == SubSeq(seq, lo + 1, hi)

RECURSIVE GroupBody(_, _, _)
GroupBody(a, b, group) ==
    IF group = << >> THEN << >>
    ELSE LET c == Head(group)
         IN  (IF c.tag = "equal" THEN Prefixed("context", " ", Slice(a, c.i1, c.i2))
              ELSE (IF c.tag \in {"replace", "delete"}
                    THEN Prefixed("removed", "-", Slice(a, c.i1, c.i2)) ELSE << >>)
                   \o (IF c.tag \in {"replace", "insert"}
                       THEN Prefixed("added", "+", Slice(b, c.j1, c.j2)) ELSE << >>))
             \o GroupBody(a, b, Tail(group))

RECURSIVE Hunks(_, _, _)
Hunks(a, b, groups) ==
    IF groups = << >> THEN << >>
    ELSE LET group == Head(groups)
             first == group[1]
             final == group[Len(group)]
         IN  <<DiffLine("hunk", <<"@", "@", " ", "-">>
                                \o FormatRangeUnified(first.i1, final.i2)
                                \o <<" ", "+">>
                                \o FormatRangeUnified(first.j1, final.j2)
                                \o <<" ", "@", "@">>)>>
             \o GroupBody(a, b, group)
             \o Hunks(a, b, Tail(groups))

\* difflib.unified_diff(a, b, fromfile=, tofile=, lineterm="") with n = 3
UnifiedDiff(a, b, fromfile, tofile) ==
    LET groups == GetGroupedOpcodes(a, b, 3)
    IN  IF groups = << >> THEN << >>
        ELSE <<DiffLine("header", <<"-", "-", "-", " ", fromfile>>),
               DiffLine("header", <<"+", "+", "+", " ", tofile>>)>>
             \o Hunks(a, b, groups)

IsDriftedNoHeaderTest(diff_lines) ==
    \E k \in 1..Len(diff_lines) :
        StartsWith(diff_lines[k].text, <<"+">>) \/ StartsWith(diff_lines[k].text, <<"-">>)

\* line 158
IsDrifted(diff_lines) ==
    \E k \in 1..Len(diff_lines) :
        /\ StartsWith(diff_lines[k].text, <<"+">>) \/ StartsWith(diff_lines[k].text, <<"-">>)
        /\ ~(\/ StartsWith(diff_lines[k].text, <<"+", "+", "+">>)
             \/ StartsWith(diff_lines[k].text, <<"-", "-", "-">>))

RunningLinesUnfiltered(running, patterns) == SplitLines(PyStrOf(running.data[1]))

\* line 147
RunningLines(running, patterns) ==
    FilterLines(SplitLines(PyStrOf(running.data[1])), patterns)

BaselineLinesUnfiltered(baseline, patterns) == SplitLines(PyStrOf(baseline.data[1]))

\* line 148
BaselineLines(baseline, patterns) ==
    FilterLines(SplitLines(PyStrOf(baseline.data[1])), patterns)

DiffTextAlways(is_drifted, diff_lines) ==
    Some(JoinLines([k \in 1..Len(diff_lines) |-> diff_lines[k].text]))

\* line 162: "\n".join(diff_lines) if is_drifted else None
DiffText(is_drifted, diff_lines) ==
    IF is_drifted THEN Some(JoinLines([k \in 1..Len(diff_lines) |-> diff_lines[k].text]))
    ELSE Absent

ConfigDriftOutput(device, is_drifted, diff) ==
    [device |-> device, is_drifted |-> is_drifted, diff |-> diff]

DriftCall(d) == [NoCall EXCEPT !.op = "detect_drift", !.device = d]

\* History: the sources and the result of the drift check that finished just
\* before this one, if the last finished operation was a drift check.
Before ==
    IF res.call.op = "detect_drift" /\ res.drift /= Absent
    THEN Some([running |-> res.drift[1].running, baseline |-> res.drift[1].baseline,
               out |-> res.out])
    ELSE Absent

DriftSourcesBaselineFirst(runningRet, baselineRet) ==
    IF ~Resolve(baselineRet, "baseline_config").success
    THEN [calls |-> <<"baseline_loader">>,
          failure |-> Some(Resolve(baselineRet, "baseline_config"))]
    ELSE IF ~Resolve(runningRet, "running_config").success
    THEN [calls |-> <<"baseline_loader", "running_config_fetcher">>,
          failure |-> Some(Resolve(runningRet, "running_config"))]
    ELSE [calls |-> <<"baseline_loader", "running_config_fetcher">>, failure |-> Absent]

\* lines 140-145: the sources detect_drift calls, in the order of the calls,
\* and the failure it returns early with, if any
DriftSources(runningRet, baselineRet) ==
    IF ~Resolve(runningRet, "running_config").success
    THEN [calls |-> <<"running_config_fetcher">>,
          failure |-> Some(Resolve(runningRet, "running_config"))]
    ELSE IF ~Resolve(baselineRet, "baseline_config").success
    THEN [calls |-> <<"running_config_fetcher", "baseline_loader">>,
          failure |-> Some(Resolve(baselineRet, "baseline_config"))]
    ELSE [calls |-> <<"running_config_fetcher", "baseline_loader">>, failure |-> Absent]

\* detect_drift(device)
DetectDrift(p, d) ==
    /\ pc[p] = "idle"
    /\ LET runningRet == env.running_config_fetcher
           baselineRet == env.baseline_loader
           running == Resolve(runningRet, "running_config")
           baseline == Resolve(baselineRet, "baseline_config")
           report(out, lines) ==
               [proc |-> p, out |-> out, raised |-> Absent, call |-> DriftCall(d),
                fileAtReturn |-> file[d],
                drift |-> Some([running |-> runningRet, baseline |-> baselineRet,
                                diff_lines |-> lines, before |-> Before,
                                source_calls |-> DriftSources(runningRet, baselineRet).calls])]
       IN  IF DriftSources(runningRet, baselineRet).failure /= Absent
           THEN res' = report(DriftSources(runningRet, baselineRet).failure[1], << >>)
           ELSE LET diff_lines == UnifiedDiff(BaselineLines(baseline, env.ignore_patterns),
                                              RunningLines(running, env.ignore_patterns),
                                              "baseline", "running")
                    is_drifted == IsDrifted(diff_lines)
                IN  res' = report(ToolOutputOk(ConfigDriftOutput(d, is_drifted,
                                      DiffText(is_drifted, diff_lines))),
                                  diff_lines)
    /\ UNCHANGED <<env, repo, file, index, head, versions, pc, call, last>>

\* lines 140, 143: a source raises; detect_drift has no handler
DetectDriftRaises(p, d, source) ==
    /\ pc[p] = "idle"
    /\ source = "baseline_loader"
          => Resolve(env.running_config_fetcher, "running_config").success
    /\ res' = [proc |-> p, out |-> NoResult, raised |-> Some(source), call |-> DriftCall(d),
               fileAtReturn |-> file[d], drift |-> Absent]
    /\ UNCHANGED <<env, repo, file, index, head, versions, pc, call, last>>

\* ------------------------------------------------------------ the store
Steps ==
    \/ \E p \in Procs : WriteText(p)
    \/ \E p \in Procs : IndexAdd(p)
    \/ \E p \in Procs : CheckDirty(p)
    \/ \E p \in Procs : IndexCommit(p)
    \/ \E p \in Procs : Return(p)

\* commit_config calls one after another, every dependency working
Next ==
    \/ \E p \in Procs, d \in Devices, c \in Contents, m \in Messages :
          Sequential /\ CommitConfig(p, d, c, m)
    \/ Steps

Spec == Init /\ [][Next]_vars

\* The finished operation is a commit_config call (direct or from a backup)
\* that ran against an attached repository.
Returned == res.call.op /= "none" /\ res.call.wrote

CommitHash == res.out.data[1].commit_hash

\* C1: with a repository attached, a commit_config call that follows a successful
\* call for the same device with identical content succeeds, returns a null
\* commit_hash and creates no version.
C1_RepeatedCommitIsNoOp ==
    (repo /\ Returned /\ res.call.prevCall /= Absent
          /\ res.call.prevCall[1].content = res.call.content)
    => /\ res.call.prevCall[1].success
       /\ res.out.success
       /\ CommitHash = NoHash
       /\ res.call.created = << >>

C1_Witness ==
    /\ repo /\ Returned /\ res.call.prevCall /= Absent
    /\ res.call.prevCall[1].content = res.call.content
    /\ CommitHash = NoHash
    /\ Len(versions) >= 1
    /\ head[res.call.device] = Some(res.call.content)

\* C2: with a repository attached and no backend failure, a call whose content
\* differs from the device's last committed content creates exactly one version,
\* carrying the call's message, and returns its identifier; a non-null
\* commit_hash is the identifier of a version this call created.
C2_ChangedContentCreatesOneVersion ==
    (repo /\ Returned /\ res.call.failedStep = "none")
    => /\ res.out.success
       /\ (res.call.prevCommitted /= Some(res.call.content))
            => /\ Len(res.call.created) = 1
               /\ CommitHash /= NoHash
               /\ CommitHash = res.call.created[1]
               /\ CommitHash <= Len(versions)
               /\ versions[CommitHash] = res.call.message
       /\ (CommitHash /= NoHash) => res.call.created = <<CommitHash>>

C2_Witness ==
    /\ repo /\ Returned /\ res.call.failedStep = "none"
    /\ res.call.prevCommitted /= Absent
    /\ res.call.prevCommitted /= Some(res.call.content)
    /\ CommitHash = 2
    /\ versions[2] = res.call.message
    /\ versions[1] /= versions[2]

\* C4: with no repository attached (GitPython missing or the path not a
\* repository) every commit_config call writes the content to the device's
\* file and returns a successful result with a null commit_hash; no version
\* is ever created.
C4_NoBackendWritesUnversioned ==
    (~env.gitpython \/ ~env.valid)
    => /\ versions = << >>
       /\ Returned => /\ res.out.success
                      /\ CommitHash = NoHash
                      /\ res.fileAtReturn = Some(res.call.content)

C4_Witness ==
    /\ ~env.valid
    /\ Returned
    /\ res.call.prevCall /= Absent
    /\ res.call.prevCall[1].content /= res.call.content
    /\ res.fileAtReturn = Some(res.call.content)
    /\ CommitHash = NoHash

\* commit_config calls one after another; a backend step may fail
NextFail ==
    \/ \E p \in Procs, d \in Devices, c \in Contents, m \in {<<"msg1">>} :
          Sequential /\ CommitConfig(p, d, c, m)
    \/ Steps
    \/ \E p \in Procs : GitCommandFails(p)

SpecFail == Init /\ [][NextFail]_vars

\* C5: a failing backend step (add, is_dirty or commit) is caught: the call
\* returns a successful result with a null commit_hash and the device's file
\* holds the call's content.
C5_BackendFailureDegrades ==
    (Returned /\ res.call.failedStep /= "none")
    => /\ res.out.success
       /\ res.out.error = Absent
       /\ CommitHash = NoHash
       /\ res.call.created = << >>
       /\ res.fileAtReturn = Some(res.call.content)

C5_Witness ==
    /\ Returned /\ res.call.failedStep = "commit"
    /\ res.out.success /\ CommitHash = NoHash
    /\ res.fileAtReturn = Some(res.call.content)
    /\ index[res.call.device] /= head[res.call.device]

\* C3: a call whose content equals the device's last committed content returns
\* a null commit_hash and creates no version, whatever else is staged or
\* untracked in the repository.
C3_NoOpDependsOnDeviceOnly ==
    (repo /\ Returned /\ res.call.failedStep = "none"
          /\ res.call.prevCommitted = Some(res.call.content))
    => /\ CommitHash = NoHash
       /\ res.call.created = << >>

\* commit_config calls of different devices interleave, at most one in flight
\* per device; every dependency working
NextConc ==
    \/ \E p \in Procs, d \in Devices, c \in Contents, m \in {<<"msg1">>} :
          OnePerDevice(d) /\ CommitConfig(p, d, c, m)
    \/ Steps

SpecConc == Init /\ [][NextConc]_vars

\* C8: with at most one commit in flight per device, a call whose content
\* differs from the device's last committed content returns a non-null
\* commit_hash and a call whose content is unchanged returns null.
C8_PerDeviceExclusionSuffices ==
    (repo /\ Returned)
    => (CommitHash /= NoHash <=> res.call.prevCommitted /= Some(res.call.content))

\* backup_config calls one after another, every dependency working
NextBackup ==
    \/ \E p \in Procs, d \in BackupDevices, f \in FetcherReturns, t \in Times :
          Sequential /\ BackupConfig(p, d, f, t)
    \/ Steps

SpecBackup == InitBackup /\ [][NextBackup]_vars

\* The content the fetcher handed back is absent or empty.
FetchedEmpty(fetched) ==
    \/ fetched.isToolOutput /\ fetched.out.success
         /\ fetched.out.data[1].type \in {"NoneType", "str"}
         /\ fetched.out.data[1].text = << >>
    \/ ~fetched.isToolOutput
         /\ fetched.value.type \in {"NoneType", "str"}
         /\ fetched.value.text = << >>

\* C6: a backup whose fetched content is absent or empty fails with "No
\* configuration content returned", writes no snapshot and creates no version.
C6_EmptyContentIsRejected ==
    (res.call.op = "backup_config" /\ FetchedEmpty(res.call.fetched[1]))
    => /\ ~res.out.success
       /\ res.out.error = Some(<<"No configuration content returned">>)
       /\ ~res.call.wrote
       /\ res.call.created = << >>

\* ------------------------------------------------------- drift checks
LineSeqs == UNION {[1..k -> ConfigLines] : k \in 0..MaxLines}

\* Configuration texts: lines joined by line ends, with or without a final one
DriftTexts ==
    {JoinLines(ls) : ls \in LineSeqs} \cup {<<NL>>, <<"h", "R", "1", NL>>, <<NL, "n", "t", "p">>}

Bare(v) == [isToolOutput |-> FALSE, out |-> NoResult, value |-> v]

Wrapped(out) == [isToolOutput |-> TRUE, out |-> out, value |-> PyNone]

\* Callable[[str], str | ToolOutput]: a text, None, or a ToolOutput
SourceReturns ==
    {Bare(PyStr(t)) : t \in DriftTexts}
    \cup {Bare(PyNone), Wrapped(ToolOutputFail(<<"source failed">>)), Wrapped(ToolOutputOk(PyNone))}
    \cup {Wrapped(ToolOutputOk(PyStr(t))) : t \in {<< >>, <<"h", "R", "1">>}}

IgnorePatternSets ==
    { << >>,
      << [anchored |-> TRUE, lit |-> <<"n", "t", "p">>] >>,
      << [anchored |-> FALSE, lit |-> <<"+">>], [anchored |-> TRUE, lit |-> <<"n">>] >> }

\* Drift checks of a tool built with any of the pattern sets over any two sources
InitDrift == InitWith([gitpython : {TRUE}, valid : {TRUE}, serializer : {FALSE},
                       ignore_patterns : IgnorePatternSets,
                       running_config_fetcher : SourceReturns,
                       baseline_loader : SourceReturns])

\* One caller: a drift check reads nothing another check writes
NextDrift == \E d \in BackupDevices : DetectDrift(1, d)

SpecDrift == InitDrift /\ [][NextDrift]_vars

\* A drift report was produced: both sources delivered.
DriftReported ==
    /\ res.call.op = "detect_drift"
    /\ res.raised = Absent
    /\ Resolve(res.drift[1].running, "running_config").success
    /\ Resolve(res.drift[1].baseline, "baseline_config").success

FilteredRunning ==
    FilterLines(SplitLines(PyStrOf(Resolve(res.drift[1].running, "running_config").data[1])),
                env.ignore_patterns)

FilteredBaseline ==
    FilterLines(SplitLines(PyStrOf(Resolve(res.drift[1].baseline, "baseline_config").data[1])),
                env.ignore_patterns)

\* The diff of the report holds a line that unified_diff emitted as added or removed.
DiffHasChange ==
    \E k \in 1..Len(res.drift[1].diff_lines) :
        res.drift[1].diff_lines[k].kind \in {"added", "removed"}

\* C9: is_drifted is true if and only if the unified diff from the filtered
\* baseline lines to the filtered running lines holds an added or removed
\* line, whatever the lines' own text begins with.
C9_DriftIffDiffHasChange ==
    DriftReported => (res.out.data[1].is_drifted <=> DiffHasChange)

\* C10: when the running and baseline lines are equal after ignore-filtering,
\* detect_drift returns a successful report with is_drifted false and no diff.
C10_EqualAfterFilteringIsNoDrift ==
    (DriftReported /\ FilteredRunning = FilteredBaseline)
    => /\ res.out.success
       /\ res.out.data[1].is_drifted = FALSE
       /\ res.out.data[1].diff = Absent
       /\ res.drift[1].diff_lines = << >>

C10_Witness ==
    /\ DriftReported
    /\ FilteredRunning = FilteredBaseline
    /\ FilteredRunning /= << >>
    /\ env.ignore_patterns /= << >>
    /\ res.drift[1].running /= res.drift[1].baseline
    /\ Len(SplitLines(res.drift[1].baseline.value.text)) > Len(FilteredBaseline)
    /\ ~res.out.data[1].is_drifted
    /\ res.out.data[1].diff = Absent

\* C12: in every successful drift report, diff is present if and only if
\* is_drifted is true.
C12_DiffPresentIffDrifted ==
    (res.call.op = "detect_drift" /\ res.raised = Absent /\ res.out.success)
    => (res.out.data[1].diff /= Absent <=> res.out.data[1].is_drifted)

\* A report with drift carries the two file headers, a hunk header and the
\* changed line.
C12_Witness ==
    /\ DriftReported /\ res.out.success
    /\ res.out.data[1].is_drifted
    /\ res.out.data[1].diff /= Absent
    /\ Len(res.drift[1].diff_lines) >= 4
    /\ Len(res.out.data[1].diff[1]) > 0

\* The source handed back a structured failure or no value.
SourceFails(source) ==
    \/ source.isToolOutput /\ ~source.out.success
    \/ ~source.isToolOutput /\ source.value.type = "NoneType"

\* The failure of a source: its structured failure, or "<label> not available"
FailureOf(source, label) ==
    IF source.isToolOutput THEN source.out
    ELSE [success |-> FALSE, data |-> Absent, error |-> Some(<<label, " not available">>)]

\* C13: when the running source fails, detect_drift returns that failure; when
\* the running source delivers and the baseline source fails, it returns the
\* baseline's failure; in both cases no report and no diff is produced.
C13_SourceFailureIsReturned ==
    (res.call.op = "detect_drift" /\ res.raised = Absent)
    => /\ SourceFails(res.drift[1].running)
          => res.out = FailureOf(res.drift[1].running, "running_config")
       /\ (~SourceFails(res.drift[1].running) /\ SourceFails(res.drift[1].baseline))
          => res.out = FailureOf(res.drift[1].baseline, "baseline_config")
       /\ (SourceFails(res.drift[1].running) \/ SourceFails(res.drift[1].baseline))
          => /\ ~res.out.success
             /\ res.out.data = Absent
             /\ res.drift[1].diff_lines = << >>

\* The running source delivered a text, the baseline source handed back None.
C13_Witness ==
    /\ res.call.op = "detect_drift" /\ res.raised = Absent
    /\ ~SourceFails(res.drift[1].running)
    /\ res.drift[1].running.value.text /= << >>
    /\ res.drift[1].baseline = Bare(PyNone)
    /\ ~res.out.success
    /\ res.out.error = Some(<<"baseline_config", " not available">>)

\* ------------------------------------------- dependencies that raise
ExcFetcherReturns ==
    { Bare(PyStr(<<"cfgA">>)),
      Bare(PyDict(<< <<"hostname", "R1">> >>)),
      Wrapped(ToolOutputFail(<<"fetch failed">>)) }

ExcSourceReturns == {Bare(PyStr(<<"h", "R", "1">>)), Bare(PyNone)}

InitExc == InitWith([gitpython : BOOLEAN, valid : BOOLEAN, serializer : BOOLEAN,
                     ignore_patterns : {<< >>},
                     running_config_fetcher : ExcSourceReturns,
                     baseline_loader : ExcSourceReturns])

\* Operations one after another; any dependency may fail or raise
NextExc ==
    \/ \E p \in Procs, d \in BackupDevices, c \in {<<"cfgA">>} :
          Sequential /\ CommitConfig(p, d, c, <<"msg1">>)
    \/ \E p \in Procs, d \in BackupDevices, f \in ExcFetcherReturns :
          Sequential /\ BackupConfig(p, d, f, "T1")
    \/ \E p \in Procs, d \in BackupDevices : Sequential /\ BackupFetcherRaises(p, d)
    \/ \E p \in Procs, d \in BackupDevices, f \in ExcFetcherReturns :
          Sequential /\ BackupSerializerRaises(p, d, f)
    \/ \E p \in Procs, d \in BackupDevices : Sequential /\ DetectDrift(p, d)
    \/ \E p \in Procs, d \in BackupDevices,
          source \in {"running_config_fetcher", "baseline_loader"} :
          Sequential /\ DetectDriftRaises(p, d, source)
    \/ Steps
    \/ \E p \in Procs : WriteTextRaises(p)
    \/ \E p \in Procs : GitCommandFails(p)

SpecExc == InitExc /\ [][NextExc]_vars

\* C7: every engine operation ends by returning a result; no exception of a
\* dependency (fetcher, baseline loader, serializer, filesystem, versioning
\* backend) leaves it.
C7_NoExceptionEscapes ==
    res.call.op /= "none" => /\ res.raised = Absent
                             /\ res.out /= NoResult

\* ------------------------------------------ drift checks of changing sources
\* Lines of the configurations whose ignored lines come and go
NoiseLines == ConfigLines \ {<<"-", "-", "y">>}

NoiseTexts == {JoinLines(ls) : ls \in UNION {[1..k -> NoiseLines] : k \in 0..MaxLines}}

\* Tools built to ignore lines that begin with ntp, over sources that hand
\* back texts
InitNoise == InitWith([gitpython : {TRUE}, valid : {TRUE}, serializer : {FALSE},
                       ignore_patterns : {<< [anchored |-> TRUE, lit |-> <<"n", "t", "p">>] >>},
                       running_config_fetcher : {Bare(PyStr(t)) : t \in NoiseTexts},
                       baseline_loader : {Bare(PyStr(t)) : t \in NoiseTexts}])

\* The lines of the text a source hands back
SourceLines(source) == SplitLines(PyStrOf(Resolve(source, "source").data[1]))

\* line matches one of the tool's ignore patterns
Ignored(line) ==
    \E k \in 1..Len(env.ignore_patterns) : Search(env.ignore_patterns[k], line)

\* A first drift check has finished and no second one yet: the histories
\* looked at are two checks long.
AfterFirstCheck ==
    res.call.op = "detect_drift" /\ res.drift /= Absent /\ res.drift[1].before = Absent

InsertAt(lines, k, line) == SubSeq(lines, 1, k) \o <<line>> \o SubSeq(lines, k + 1, Len(lines))

RemoveAt(lines, k) == SubSeq(lines, 1, k - 1) \o SubSeq(lines, k + 1, Len(lines))

\* Between two checks the text a source hands back gains a line that matches
\* an ignore pattern.
AddIgnoredLine(side) ==
    /\ AfterFirstCheck
    /\ \E line \in NoiseLines, k \in 0..Len(SourceLines(env[side])) :
          /\ Ignored(line)
          /\ Len(SourceLines(env[side])) < MaxLines
          /\ env' = [env EXCEPT ![side] =
                        Bare(PyStr(JoinLines(InsertAt(SourceLines(env[side]), k, line))))]
    /\ UNCHANGED <<repo, file, index, head, versions, pc, call, res, last>>

\* Between two checks the text a source hands back loses a line that matches
\* an ignore pattern.
RemoveIgnoredLine(side) ==
    /\ AfterFirstCheck
    /\ \E k \in 1..Len(SourceLines(env[side])) :
          /\ Ignored(SourceLines(env[side])[k])
          /\ env' = [env EXCEPT ![side] =
                        Bare(PyStr(JoinLines(RemoveAt(SourceLines(env[side]), k))))]
    /\ UNCHANGED <<repo, file, index, head, versions, pc, call, res, last>>

NextNoise ==
    \/ \E d \in BackupDevices : DetectDrift(1, d)
    \/ \E side \in {"running_config_fetcher", "baseline_loader"} : AddIgnoredLine(side)
    \/ \E side \in {"running_config_fetcher", "baseline_loader"} : RemoveIgnoredLine(side)

SpecNoise == InitNoise /\ [][NextNoise]_vars

\* lines without the ones that match an ignore pattern
WithoutIgnored(lines) ==
    SelectSeq(lines, LAMBDA line : ~Ignored(line))

\* The check before the reported one also produced a report.
ReportedBefore ==
    /\ DriftReported
    /\ res.drift[1].before /= Absent
    /\ Resolve(res.drift[1].before[1].running, "running_config").success
    /\ Resolve(res.drift[1].before[1].baseline, "baseline_config").success

\* The sources of the reported check differ from those of the check before
\* it only in lines that match an ignore pattern.
SameButIgnored ==
    /\ WithoutIgnored(SourceLines(res.drift[1].before[1].running))
         = WithoutIgnored(SourceLines(res.drift[1].running))
    /\ WithoutIgnored(SourceLines(res.drift[1].before[1].baseline))
         = WithoutIgnored(SourceLines(res.drift[1].baseline))

\* C11: a drift check whose sources differ from those of the check before it
\* only in lines that match an ignore pattern (any number of them, added to or
\* removed from either side) reports the same is_drifted and the same diff;
\* and a check whose running and baseline texts differ only in such lines
\* reports is_drifted false and no diff.
C11_IgnoredLinesNeverChangeDrift ==
    /\ (ReportedBefore /\ SameButIgnored)
       => /\ res.out.data[1].is_drifted = res.drift[1].before[1].out.data[1].is_drifted
          /\ res.out.data[1].diff = res.drift[1].before[1].out.data[1].diff
    /\ (DriftReported /\ WithoutIgnored(SourceLines(res.drift[1].running))
                           = WithoutIgnored(SourceLines(res.drift[1].baseline)))
       => /\ ~res.out.data[1].is_drifted
          /\ res.out.data[1].diff = Absent

\* Drift was reported twice in a row although between the two checks the
\* running text gained an ignored line and the baseline text lost one.
C11_Witness ==
    /\ ReportedBefore /\ SameButIgnored
    /\ res.out.data[1].is_drifted
    /\ res.drift[1].before[1].out.data[1].is_drifted
    /\ Len(SourceLines(res.drift[1].running))
         > Len(SourceLines(res.drift[1].before[1].running))
    /\ Len(SourceLines(res.drift[1].baseline))
         < Len(SourceLines(res.drift[1].before[1].baseline))

\* ------------------------------------------------------ ComplianceAuditTool
MaxRules == 2
MaxText == 3

\* ComplianceRule(rule_id, description, pattern, mode); a pattern is a literal
\* with or without a leading ^ and a trailing $
ComplianceRule(rule_id, description, pattern, mode) ==
    [rule_id |-> rule_id, description |-> description, pattern |-> pattern, mode |-> mode]

ComplianceViolation(rule_id, rule_description, violating_line, violation_type) ==
    [rule_id |-> rule_id, rule_description |-> rule_description,
     violating_line |-> violating_line, violation_type |-> violation_type]

ComplianceReport(policy_name, is_compliant, violations) ==
    [policy_name |-> policy_name, is_compliant |-> is_compliant, violations |-> violations]

Regex(bol, lit, eol) == [bol |-> bol, lit |-> lit, eol |-> eol]

\* Rules of the audits: ^a$ required, aa forbidden, ^$ forbidden under the
\* identifier of the rule before it, a with a mode that is neither
Rules ==
    { ComplianceRule("R1", "d1", Regex(TRUE, <<"a">>, TRUE), "required"),
      ComplianceRule("R2", "d2", Regex(FALSE, <<"a", "a">>, FALSE), "forbidden"),
      ComplianceRule("R2", "d3", Regex(TRUE, << >>, TRUE), "forbidden"),
      ComplianceRule("R4", "d4", Regex(FALSE, <<"a">>, FALSE), "optional") }

PolicyNames == {"pol1", "pol2"}

\* Configuration texts of the audits, as characters
AuditTexts ==
    UNION {[1..k -> {"a", NL}] : k \in 0..MaxText}
    \cup {<<"a", "a", "a", "a">>, <<"a", "a", NL, "a", "a">>}

\* extra_rules: None or a sequence of rules
ExtraRuleSets == {Absent} \cup {Some(rs) : rs \in UNION {[1..k -> Rules] : k \in 0..MaxRules}}

\* policy_rules: pol1 unregistered or registered with no rule or one; pol2 unregistered
PolicyRuleSets ==
    { [n \in PolicyNames |-> IF n = "pol1" THEN rs ELSE Absent] :
         rs \in {Absent, Some(<< >>)} \cup {Some(<<r>>) : r \in {x \in Rules : x.rule_id /= "R4"}} }

\* rule_loader: None, or a callable that raises or returns a sequence of rules
RuleLoaders ==
    { Absent, Some([raises |-> TRUE, rules |-> << >>]), Some([raises |-> FALSE, rules |-> << >>]) }
    \cup { Some([raises |-> FALSE, rules |-> <<r>>]) : r \in {x \in Rules : x.mode /= "forbidden"} }

\* re with re.MULTILINE: ^ matches at the start and after every line end,
\* $ at the end and before every line end; p is an offset into text
AtLineStart(text, p) == p = 0 \/ text[p] = NL

AtLineEnd(text, p) == p = Len(text) \/ text[p + 1] = NL

\* A pattern character matches itself; . matches any character but a line end
CharMatches(c, x) == IF c = "." THEN x /= NL ELSE c = x

MatchAt(pattern, text, p) ==
    /\ p + Len(pattern.lit) <= Len(text)
    /\ \A k \in 1..Len(pattern.lit) : CharMatches(pattern.lit[k], text[p + k])
    /\ pattern.bol => AtLineStart(text, p)
    /\ pattern.eol => AtLineEnd(text, p + Len(pattern.lit))

\* pattern.finditer(config_content): the non-overlapping matches from left
\* to right, each as its span
RECURSIVE FindIterFrom(_, _, _)
FindIterFrom(pattern, text, p) ==
    IF p > Len(text) THEN << >>
    ELSE IF MatchAt(pattern, text, p)
    THEN <<[start |-> p, end |-> p + Len(pattern.lit)]>>
         \o FindIterFrom(pattern, text, IF pattern.lit = << >> THEN p + 1
                                        ELSE p + Len(pattern.lit))
    ELSE FindIterFrom(pattern, text, p + 1)

FindIter(pattern, text) == FindIterFrom(pattern, text, 0)

\* match.group(0)
Group0(text, match) == SubSeq(text, match.start + 1, match.end)

\* line 229: list(self._policy_rules.get(policy_name, []))
RegisteredRules(policy_rules, policy_name) ==
    IF policy_rules[policy_name] = Absent THEN << >> ELSE policy_rules[policy_name][1]

LoaderInvokedAlways(rules, rule_loader) == rule_loader /= Absent

\* line 230: not rules and self._rule_loader
LoaderInvoked(rules, rule_loader) == rules = << >> /\ rule_loader /= Absent

LoadRulesSwallowsFailure(rules, rule_loader, policy_name) ==
    IF ~LoaderInvoked(rules, rule_loader) THEN [failed |-> FALSE, rules |-> rules, calls |-> << >>]
    ELSE [failed |-> FALSE, rules |-> rules \o rule_loader[1].rules, calls |-> <<policy_name>>]

\* lines 230-235: the rules after the loader had its turn, whether the loader
\* failed, and the arguments the loader was called with
LoadRules(rules, rule_loader, policy_name) ==
    IF ~LoaderInvoked(rules, rule_loader) THEN [failed |-> FALSE, rules |-> rules, calls |-> << >>]
    ELSE IF rule_loader[1].raises THEN [failed |-> TRUE, rules |-> rules, calls |-> <<policy_name>>]
    ELSE [failed |-> FALSE, rules |-> rules \o rule_loader[1].rules, calls |-> <<policy_name>>]

ExtendWithExtraFirst(rules, extra_rules) ==
    IF extra_rules /= Absent /\ extra_rules[1] /= << >> THEN extra_rules[1] \o rules ELSE rules

\* lines 236-237: if extra_rules: rules.extend(extra_rules)
ExtendWithExtra(rules, extra_rules) ==
    IF extra_rules /= Absent /\ extra_rules[1] /= << >> THEN rules \o extra_rules[1] ELSE rules

NoRulesNever(rules) == FALSE

\* line 238: not rules
NoRules(rules) == rules = << >>

RequiredViolationsPerLine(rule, text, matches) ==
    IF rule.mode = "required" /\ matches = << >>
    THEN [k \in 1..(Len(SplitLines(text)) + 1) |->
            ComplianceViolation(rule.rule_id, rule.description, Absent, "missing_required")]
    ELSE << >>

\* lines 245-252
RequiredViolations(rule, text, matches) ==
    IF rule.mode = "required" /\ matches = << >>
    THEN <<ComplianceViolation(rule.rule_id, rule.description, Absent, "missing_required")>>
    ELSE << >>

ForbiddenViolationsOncePerRule(rule, text, matches) ==
    IF rule.mode = "forbidden" /\ matches /= << >>
    THEN <<ComplianceViolation(rule.rule_id, rule.description,
                               Some(Group0(text, matches[1])), "found_forbidden")>>
    ELSE << >>

\* lines 253-262
ForbiddenViolations(rule, text, matches) ==
    IF rule.mode = "forbidden" /\ matches /= << >>
    THEN [k \in 1..Len(matches) |->
            ComplianceViolation(rule.rule_id, rule.description,
                                Some(Group0(text, matches[k])), "found_forbidden")]
    ELSE << >>

RuleViolationsWithoutModeTest(rule, text) ==
    IF rule.mode = "required"
    THEN RequiredViolations(rule, text, FindIter(rule.pattern, text))
    ELSE ForbiddenViolations([rule EXCEPT !.mode = "forbidden"], text,
                             FindIter(rule.pattern, text))

\* lines 243-262: the violations one rule adds
RuleViolations(rule, text) ==
    IF rule.mode = "required" /\ FindIter(rule.pattern, text) = << >>
    THEN RequiredViolations(rule, text, FindIter(rule.pattern, text))
    ELSE ForbiddenViolations(rule, text, FindIter(rule.pattern, text))

\* lines 241-262: per rule of the sequence, the violations it adds
RECURSIVE Segments(_, _)
Segments(rules, text) ==
    IF rules = << >> THEN << >>
    ELSE <<RuleViolations(Head(rules), text)>> \o Segments(Tail(rules), text)

RECURSIVE Flatten(_)
Flatten(seqs) == IF seqs = << >> THEN << >> ELSE Head(seqs) \o Flatten(Tail(seqs))

IsCompliantAlways(violations) == TRUE

\* line 264: is_compliant=not violations
IsCompliant(violations) == violations = << >>

\* What an audit leaves in res: the result, and as history its arguments, the
\* loader calls it made, the rules it evaluated and what each of them added
AuditResult(p, out, config_content, policy_name, extra_rules, calls, rules, segments) ==
    [proc |-> p, out |-> out, raised |-> Absent,
     call |-> [NoCall EXCEPT !.op = "audit_config"],
     fileAtReturn |-> Absent, drift |-> Absent,
     audit |-> [config_content |-> config_content, policy_name |-> policy_name,
                extra_rules |-> extra_rules, loader_calls |-> calls,
                rules |-> rules, segments |-> segments]]

\* audit_config(config_content, policy_name, extra_rules)
AuditConfig(p, config_content, policy_name, extra_rules) ==
    /\ pc[p] = "idle"
    /\ LET loaded == LoadRules(RegisteredRules(env.policy_rules, policy_name),
                               env.rule_loader, policy_name)
           rules == ExtendWithExtra(loaded.rules, extra_rules)
           segments == Segments(rules, config_content)
       IN  IF loaded.failed
           THEN res' = AuditResult(p, ToolOutputFail(<<"Failed to load compliance rules">>),
                                   config_content, policy_name, extra_rules,
                                   loaded.calls, << >>, << >>)
           ELSE IF NoRules(rules)
           THEN res' = AuditResult(p, ToolOutputFail(<<"No compliance rules defined">>),
                                   config_content, policy_name, extra_rules,
                                   loaded.calls, << >>, << >>)
           ELSE res' = AuditResult(p,
                          ToolOutputOk(ComplianceReport(policy_name,
                                                        IsCompliant(Flatten(segments)),
                                                        Flatten(segments))),
                          config_content, policy_name, extra_rules,
                          loaded.calls, rules, segments)
    /\ UNCHANGED <<env, repo, file, index, head, versions, pc, call, last>>

\* Audit tools built with any registered rules and any loader, and the
\* arguments their caller audits with
InitAudit == InitWith([gitpython : {TRUE}, valid : {TRUE}, serializer : {FALSE},
                       ignore_patterns : {<< >>},
                       running_config_fetcher : {NoSource}, baseline_loader : {NoSource},
                       policy_rules : PolicyRuleSets, rule_loader : RuleLoaders,
                       config_content : AuditTexts, policy_name : PolicyNames,
                       extra_rules : ExtraRuleSets])

NextAudit == AuditConfig(1, env.config_content, env.policy_name, env.extra_rules)

SpecAudit == InitAudit /\ [][NextAudit]_vars

\* The finished operation is an audit.
Audited == res.call.op = "audit_config"

\* The rules registered for the audited policy, none when it is unregistered
Registered ==
    IF env.policy_rules[res.audit.policy_name] = Absent THEN << >>
    ELSE env.policy_rules[res.audit.policy_name][1]

\* The extra rules the caller supplied, none when it passed None
Extra == IF res.audit.extra_rules = Absent THEN << >> ELSE res.audit.extra_rules[1]

\* C14: an audit whose final rule set is empty (nothing registered for the
\* policy, no loader or a loader that returns no rule, no extra rule) fails
\* with "No compliance rules defined"; no report is ever built from an empty
\* rule sequence.
C14_EmptyRuleSetFails ==
    Audited
    => /\ (/\ Registered = << >>
           /\ env.rule_loader = Absent
                \/ (~env.rule_loader[1].raises /\ env.rule_loader[1].rules = << >>)
           /\ Extra = << >>)
          => /\ ~res.out.success
             /\ res.out.data = Absent
             /\ res.out.error = Some(<<"No compliance rules defined">>)
       /\ res.out.success => res.audit.rules /= << >>

\* The policy is registered with no rule, the loader was asked and returned
\* none, the caller passed an empty sequence of extra rules.
C14_Witness ==
    /\ Audited
    /\ env.policy_rules[res.audit.policy_name] = Some(<< >>)
    /\ env.rule_loader = Some([raises |-> FALSE, rules |-> << >>])
    /\ res.audit.loader_calls = <<res.audit.policy_name>>
    /\ res.audit.extra_rules = Some(<< >>)
    /\ res.audit.config_content /= << >>
    /\ res.out.error = Some(<<"No compliance rules defined">>)

\* C15: an audit that invoked the rule loader and saw it fail returns the
\* failure "Failed to load compliance rules" and no report, whatever extra
\* rules the caller supplied.
C15_LoaderFailureFailsAudit ==
    (Audited /\ res.audit.loader_calls /= << >> /\ env.rule_loader[1].raises)
    => /\ ~res.out.success
       /\ res.out.data = Absent
       /\ res.out.error = Some(<<"Failed to load compliance rules">>)

C15_Witness ==
    /\ Audited
    /\ res.audit.loader_calls = <<"pol2">>
    /\ env.rule_loader[1].raises
    /\ Len(Extra) = MaxRules
    /\ ~res.out.success
    /\ res.out.error = Some(<<"Failed to load compliance rules">>)

\* The rules resolved before the extra ones: the registered ones, or when
\* there is none what the loader returned
Resolved ==
    IF Registered /= << >> THEN Registered
    ELSE IF env.rule_loader = Absent THEN << >>
    ELSE env.rule_loader[1].rules

\* C16: the loader is invoked, once and with the policy name, exactly when no
\* rule is registered for the policy and a loader is configured; the rules a
\* report was evaluated from are the registered rules, or else the loaded
\* ones, followed by the extra rules.
C16_RuleResolutionOrder ==
    Audited
    => /\ res.audit.loader_calls =
             (IF Registered = << >> /\ env.rule_loader /= Absent
              THEN <<res.audit.policy_name>> ELSE << >>)
       /\ res.out.success => res.audit.rules = Resolved \o Extra

\* A registered rule kept the configured loader from being asked, and the
\* caller's extra rules were evaluated after it.
C16_Witness ==
    /\ Audited /\ res.out.success
    /\ Len(Registered) = 1
    /\ env.rule_loader /= Absent /\ env.rule_loader[1].rules /= << >>
    /\ res.audit.loader_calls = << >>
    /\ Len(Extra) = MaxRules
    /\ Extra[1] /= Registered[1]
    /\ res.audit.rules = Registered \o Extra

\* C17: in every compliance report is_compliant is true if and only if the
\* violations list is empty.
C17_CompliantIffNoViolations ==
    (Audited /\ res.out.success)
    => (res.out.data[1].is_compliant <=> res.out.data[1].violations = << >>)

C17_Witness ==
    /\ Audited /\ res.out.success
    /\ ~res.out.data[1].is_compliant
    /\ Len(res.out.data[1].violations) >= 2
    /\ Len(res.audit.rules) = 1

\* pattern has a match somewhere in text
HasMatch(pattern, text) == \E p \in 0..Len(text) : MatchAt(pattern, text, p)

\* How many violations of the report carry the rule identifier id
CountById(violations, id) ==
    Cardinality({k \in 1..Len(violations) : violations[k].rule_id = id})

\* The rule at position i is the only evaluated rule with its identifier.
OnlyOneWithId(rules, i) ==
    \A j \in 1..Len(rules) : rules[j].rule_id = rules[i].rule_id => j = i

\* C18: every required rule of the evaluated sequence adds exactly one
\* violation, missing_required with no violating line, when its pattern has no
\* match in the text, and none when it has a match; the report's violations
\* are what the rules added, in their order.
C18_RequiredRuleZeroOrOne ==
    (Audited /\ res.out.success)
    => /\ res.out.data[1].violations = Flatten(res.audit.segments)
       /\ Len(res.audit.segments) = Len(res.audit.rules)
       /\ \A i \in 1..Len(res.audit.rules) :
             res.audit.rules[i].mode = "required"
             => /\ res.audit.segments[i] =
                     (IF HasMatch(res.audit.rules[i].pattern, res.audit.config_content)
                      THEN << >>
                      ELSE << [rule_id |-> res.audit.rules[i].rule_id,
                               rule_description |-> res.audit.rules[i].description,
                               violating_line |-> Absent,
                               violation_type |-> "missing_required"] >>)
                /\ OnlyOneWithId(res.audit.rules, i)
                   => CountById(res.out.data[1].violations, res.audit.rules[i].rule_id)
                        = (IF HasMatch(res.audit.rules[i].pattern, res.audit.config_content)
                           THEN 0 ELSE 1)

\* A text of several lines, none of them the required one: one violation.
C18_Witness ==
    /\ Audited /\ res.out.success
    /\ Len(res.audit.rules) = 1
    /\ res.audit.rules[1].mode = "required"
    /\ Len(SplitLines(res.audit.config_content)) >= 2
    /\ Len(res.out.data[1].violations) = 1
    /\ res.out.data[1].violations[1].violation_type = "missing_required"
    /\ res.out.data[1].violations[1].violating_line = Absent
    /\ ~res.out.data[1].is_compliant

\* C19: every forbidden rule of the evaluated sequence adds one violation per
\* non-overlapping match of its pattern in the text, in the order of the
\* matches, each found_forbidden and carrying the matched text.
C19_ForbiddenRuleCountsMatches ==
    (Audited /\ res.out.success)
    => \A i \in 1..Len(res.audit.rules) :
          res.audit.rules[i].mode = "forbidden"
          => /\ Len(res.audit.segments[i])
                  = Len(FindIter(res.audit.rules[i].pattern, res.audit.config_content))
             /\ \A k \in 1..Len(res.audit.segments[i]) :
                   res.audit.segments[i][k] =
                      [rule_id |-> res.audit.rules[i].rule_id,
                       rule_description |-> res.audit.rules[i].description,
                       violating_line |-> Some(res.audit.rules[i].pattern.lit),
                       violation_type |-> "found_forbidden"]
             /\ OnlyOneWithId(res.audit.rules, i)
                => CountById(res.out.data[1].violations, res.audit.rules[i].rule_id)
                     = Len(FindIter(res.audit.rules[i].pattern, res.audit.config_content))

\* aa is forbidden and stands on two lines: two violations, each carrying aa.
C19_Witness ==
    /\ Audited /\ res.out.success
    /\ res.audit.config_content = <<"a", "a", NL, "a", "a">>
    /\ Len(res.audit.rules) = 1
    /\ res.audit.rules[1].pattern.lit = <<"a", "a">>
    /\ Len(res.out.data[1].violations) = 2
    /\ \A k \in 1..2 :
          /\ res.out.data[1].violations[k].violation_type = "found_forbidden"
          /\ res.out.data[1].violations[k].violating_line = Some(<<"a", "a">>)

\* ------------------------------------------- backups of structured data
\* What the fetcher hands back: one mapping in both key orders, and another
CanonValues == StructuredValues \cup {PyDict(<< <<"hostname", "R2">>, <<"mtu", "1500">> >>)}

\* Backups of structured data one after another, every dependency working
NextCanon ==
    \/ \E p \in Procs, d \in BackupDevices, v \in CanonValues, t \in Times :
          Sequential /\ BackupConfig(p, d, Bare(v), t)
    \/ Steps

SpecCanon == InitBackup /\ [][NextCanon]_vars

\* v and w hold the same keys with the same values.
SameData(v, w) ==
    /\ v.type = "dict" /\ w.type = "dict"
    /\ {v.items[k] : k \in 1..Len(v.items)} = {w.items[k] : k \in 1..Len(w.items)}

\* C20: with no serializer injected, a backup of structured data that follows
\* a backup of the same device with the same keys and values (in any key
\* order) writes the same text as that one, returns a null commit_hash and
\* creates no version.
C20_CanonicalEncodingMakesNoOp ==
    (/\ res.call.op = "backup_config" /\ Returned
     /\ ~env.serializer
     /\ res.call.prevCall /= Absent
     /\ res.call.prevCall[1].fetched /= Absent
     /\ SameData(FetchedContent(res.call.prevCall[1].fetched[1]),
                 FetchedContent(res.call.fetched[1])))
    => /\ res.call.content = res.call.prevCall[1].content
       /\ res.fileAtReturn = Some(res.call.content)
       /\ res.out.success
       /\ CommitHash = NoHash
       /\ res.call.created = << >>

\* The second backup got the keys in the other order and carried another
\* timestamp in its message than the version the first one created.
C20_Witness ==
    /\ res.call.op = "backup_config" /\ Returned
    /\ repo /\ ~env.serializer
    /\ res.call.prevCall /= Absent
    /\ res.call.prevCall[1].fetched /= Absent
    /\ res.call.prevCall[1].fetched /= res.call.fetched
    /\ SameData(FetchedContent(res.call.prevCall[1].fetched[1]),
                FetchedContent(res.call.fetched[1]))
    /\ Len(versions) = 1
    /\ versions[1] /= res.call.message
    /\ CommitHash = NoHash
    /\ head[res.call.device] = Some(res.call.content)

\* ------------------------------------------------ order of the drift sources
\* C27: detect_drift calls the running source first and the baseline loader
\* only when the running source delivered; when both sources fail, the
\* failure it returns is the running source's.
C27_RunningSourceFirst ==
    (res.call.op = "detect_drift" /\ res.raised = Absent)
    => /\ res.drift[1].source_calls =
             (IF SourceFails(res.drift[1].running) THEN <<"running_config_fetcher">>
              ELSE <<"running_config_fetcher", "baseline_loader">>)
       /\ (SourceFails(res.drift[1].running) /\ SourceFails(res.drift[1].baseline))
          => res.out = FailureOf(res.drift[1].running, "running_config")

\* Both sources failed, each in its own way; the baseline loader was not asked.
C27_Witness ==
    /\ res.call.op = "detect_drift" /\ res.raised = Absent
    /\ res.drift[1].running = Wrapped(ToolOutputFail(<<"source failed">>))
    /\ res.drift[1].baseline = Bare(PyNone)
    /\ res.drift[1].source_calls = <<"running_config_fetcher">>
    /\ res.out = ToolOutputFail(<<"source failed">>)

OrderRules ==
    { ComplianceRule("R1", "d1", Regex(TRUE, <<"a">>, TRUE), "required"),
      ComplianceRule("R2", "d2", Regex(FALSE, <<"a", "a">>, FALSE), "forbidden"),
      ComplianceRule("R2", "d5", Regex(FALSE, <<".">>, FALSE), "forbidden") }

OrderTexts == UNION {[1..k -> {"a", "b", NL}] : k \in 0..MaxText}

InitOrder == InitWith([gitpython : {TRUE}, valid : {TRUE}, serializer : {FALSE},
                       ignore_patterns : {<< >>},
                       running_config_fetcher : {NoSource}, baseline_loader : {NoSource},
                       policy_rules : { [n \in PolicyNames |-> IF n = "pol1" THEN rs ELSE Absent] :
                                           rs \in {Absent} \cup {Some(<<r>>) : r \in OrderRules} },
                       rule_loader : { Absent,
                                       Some([raises |-> FALSE,
                                             rules |-> <<ComplianceRule("R2", "d5",
                                                           Regex(FALSE, <<".">>, FALSE),
                                                           "forbidden")>>]) },
                       config_content : OrderTexts, policy_name : {"pol1"},
                       extra_rules : {Absent} \cup {Some(rs) :
                                        rs \in UNION {[1..k -> OrderRules] : k \in 1..MaxRules}}])

NextOrder == AuditConfig(1, env.config_content, env.policy_name, env.extra_rules)

SpecOrder == InitOrder /\ [][NextOrder]_vars

\* The texts of the matches of pattern in text, from left to right
MatchedTexts(pattern, text) ==
    [k \in 1..Len(FindIter(pattern, text)) |-> Group0(text, FindIter(pattern, text)[k])]

\* C29: the violations of a report are the violations of the first evaluated
\* rule, then those of the second, and so on, the evaluated rules being the
\* resolved ones followed by the extra ones; the violations of a forbidden
\* rule carry the texts of its matches from left to right; a rule that
\* stands twice in the sequence, or shares its identifier with another,
\* adds its violations at each of its positions.
C29_ViolationsInRuleAndMatchOrder ==
    (Audited /\ res.out.success)
    => /\ res.audit.rules = Resolved \o Extra
       /\ Len(res.audit.segments) = Len(res.audit.rules)
       /\ res.out.data[1].violations = Flatten(res.audit.segments)
       /\ \A i \in 1..Len(res.audit.rules) :
             /\ \A k \in 1..Len(res.audit.segments[i]) :
                   /\ res.audit.segments[i][k].rule_id = res.audit.rules[i].rule_id
                   /\ res.audit.segments[i][k].rule_description
                        = res.audit.rules[i].description
             /\ res.audit.rules[i].mode = "forbidden"
                => [k \in 1..Len(res.audit.segments[i]) |->
                       res.audit.segments[i][k].violating_line]
                   = [k \in 1..Len(MatchedTexts(res.audit.rules[i].pattern,
                                                res.audit.config_content)) |->
                       Some(MatchedTexts(res.audit.rules[i].pattern,
                                         res.audit.config_content)[k])]

\* The registered rule forbids any character, the extra rule shares its
\* identifier and forbids aa; the text baa gives b, a, a and then aa.
C29_Witness ==
    /\ Audited /\ res.out.success
    /\ res.audit.config_content = <<"b", "a", "a">>
    /\ Len(res.audit.rules) = 2
    /\ Len(Registered) = 1 /\ Len(Extra) = 1
    /\ res.audit.rules[1].rule_id = res.audit.rules[2].rule_id
    /\ [k \in 1..Len(res.out.data[1].violations) |->
           res.out.data[1].violations[k].violating_line]
       = << Some(<<"b">>), Some(<<"a">>), Some(<<"a">>), Some(<<"a", "a">>) >>

\* ------------------------------------------------ one file per device
\* C22: the path of a device's snapshot file is given by the device alone
\* (under one store root) and differs from device to device; between calls
\* the file of every device d that was committed holds the content of the
\* last call for d; and a device's file changes only in the write of a call
\* for that device, to that call's content.
C22_OneFilePerDevice ==
    /\ [](/\ \A d, e \in Devices : FilePath(d) = FilePath(e) => d = e
          /\ Sequential => \A d \in Devices :
                              /\ last[d] /= Absent => file[d] = Some(last[d][1].content)
                              /\ last[d] = Absent => file[d] = Absent
          /\ Returned => /\ res.out.data[1].path = FilePath(res.call.device)
                         /\ res.fileAtReturn = Some(res.call.content))
    /\ [][\A d \in Devices :
             file'[d] /= file[d]
             => \E p \in Procs : /\ pc[p] = "write"
                                 /\ call[p].device = d
                                 /\ file'[d] = Some(call[p].content)]_vars

\* r2 was overwritten by its second call while r1 kept what its own last
\* call wrote.
C22_Witness ==
    /\ Sequential /\ Returned
    /\ res.call.device = "r2"
    /\ res.call.prevCall /= Absent
    /\ res.call.prevCall[1].content /= res.call.content
    /\ file["r2"] = Some(res.call.content)
    /\ last["r1"] /= Absent
    /\ file["r1"] = Some(last["r1"][1].content)
    /\ file["r1"] /= file["r2"]

\* ------------------------------------------------ a fetcher that fails
\* What the fetcher hands back: a text, or a structured failure
FailingFetcherReturns ==
    {Bare(PyStr(c)) : c \in Contents} \cup {Wrapped(ToolOutputFail(<<"fetch failed">>))}

\* Backups one after another; the fetcher may signal failure
NextFetch ==
    \/ \E p \in Procs, d \in BackupDevices, f \in FailingFetcherReturns :
          Sequential /\ BackupConfig(p, d, f, "T1")
    \/ Steps

SpecFetch == InitBackup /\ [][NextFetch]_vars

\* The finished operation is a backup whose fetcher signalled failure.
FetchFailed(r) ==
    /\ r.call.op = "backup_config"
    /\ r.call.fetched /= Absent
    /\ r.call.fetched[1].isToolOutput
    /\ ~r.call.fetched[1].out.success

\* C24: a backup whose fetcher hands back a structured failure returns that
\* failure, writes nothing and never enters commit_config: the step that
\* ends it leaves the files, the index, the history and every caller's
\* position as they were.
C24_FetcherFailureIsReturnedUntouched ==
    /\ [](FetchFailed(res) => /\ res.out = res.call.fetched[1].out
                              /\ ~res.out.success
                              /\ ~res.call.wrote
                              /\ res.call.created = << >>)
    /\ [][(FetchFailed(res') /\ res' /= res)
          => /\ file' = file /\ index' = index /\ head' = head
             /\ versions' = versions /\ last' = last
             /\ pc' = pc /\ call' = call]_vars

\* The failure came after a backup that had written and versioned the file.
C24_Witness ==
    /\ FetchFailed(res)
    /\ res.out = ToolOutputFail(<<"fetch failed">>)
    /\ repo
    /\ Len(versions) = 1
    /\ file[res.call.device] /= Absent
    /\ file[res.call.device] = head[res.call.device]
    /\ Sequential

\* ------------------------------------------------ a configured branch
BranchNames == {"main", "backup"}

\* line 49: a branch is configured and it is not the active one
CheckoutAttempted(branch, active) == branch /= Absent /\ branch[1] /= active

LoadRepoCheckoutFatal(gitpython, valid, branch, active, checkout_fails) ==
    [attached |-> /\ TryLoadRepo(gitpython, valid)
                  /\ ~(CheckoutAttempted(branch, active) /\ checkout_fails),
     active_branch |-> active]

\* _try_load_repo with a branch: the GitCommandError of a failing checkout is
\* caught inside the outer try, and the repository is returned either way
LoadRepoWithBranch(gitpython, valid, branch, active, checkout_fails) ==
    [attached |-> TryLoadRepo(gitpython, valid),
     active_branch |-> IF /\ TryLoadRepo(gitpython, valid)
                          /\ CheckoutAttempted(branch, active)
                          /\ ~checkout_fails
                       THEN branch[1]
                       ELSE active]

\* A store constructed with or without a branch, over a repository whose
\* active branch is main; the checkout, when attempted, works or fails
InitBranch ==
    /\ env \in [gitpython : {TRUE}, valid : BOOLEAN, serializer : {FALSE},
                ignore_patterns : {<< >>},
                running_config_fetcher : {NoSource}, baseline_loader : {NoSource},
                branch : {Absent} \cup {Some(b) : b \in BranchNames},
                initial_branch : {"main"}, checkout_fails : BOOLEAN,
                active_branch : BranchNames]
    /\ env.active_branch = LoadRepoWithBranch(env.gitpython, env.valid, env.branch,
                               env.initial_branch, env.checkout_fails).active_branch
    /\ repo = LoadRepoWithBranch(env.gitpython, env.valid, env.branch,
                                 env.initial_branch, env.checkout_fails).attached
    /\ file = [d \in Devices |-> Absent]
    /\ index = [d \in Devices |-> Absent]
    /\ head = [d \in Devices |-> Absent]
    /\ versions = << >>
    /\ pc = [p \in Procs |-> "idle"]
    /\ call = [p \in Procs |-> NoCall]
    /\ res = [proc |-> 0, out |-> NoResult, raised |-> Absent, call |-> NoCall,
              fileAtReturn |-> Absent, drift |-> Absent]
    /\ last = [d \in Devices |-> Absent]

\* commit_config calls one after another on the branch left active
NextBranch ==
    \/ \E p \in Procs, d \in Devices, c \in Contents :
          Sequential /\ CommitConfig(p, d, c, <<"msg1">>)
    \/ Steps

SpecBranch == InitBranch /\ [][NextBranch]_vars

\* The store was constructed over a repository with a branch configured whose
\* checkout was attempted and failed.
CheckoutFailed ==
    /\ env.gitpython /\ env.valid
    /\ CheckoutAttempted(env.branch, env.initial_branch)
    /\ env.checkout_fails

\* C23: when the checkout of the configured branch fails at construction the
\* repository stays attached and the branch that was active stays active;
\* every later commit_config call succeeds, and one whose content differs
\* from the device's last committed content stages it and returns the
\* identifier of the one version it created.
C23_FailedCheckoutKeepsBackend ==
    CheckoutFailed
    => /\ repo
       /\ env.active_branch = env.initial_branch
       /\ Returned
          => /\ res.out.success
             /\ res.fileAtReturn = Some(res.call.content)
             /\ (res.call.prevCommitted /= Some(res.call.content))
                  => /\ CommitHash /= NoHash
                     /\ res.call.created = <<CommitHash>>
                     /\ CommitHash <= Len(versions)
                     /\ versions[CommitHash] = res.call.message

\* After the failed checkout a second version was created on main.
C23_Witness ==
    /\ CheckoutFailed
    /\ env.branch = Some("backup")
    /\ env.active_branch = "main"
    /\ Returned /\ Sequential
    /\ res.call.prevCommitted /= Absent
    /\ res.call.prevCommitted /= Some(res.call.content)
    /\ CommitHash = 2
    /\ index[res.call.device] = Some(res.call.content)
    /\ head[res.call.device] = Some(res.call.content)

\* ------------------------------------------- AutomatedPatchingWorkflowTool
\* (network_automation_agents/tools/lifecycle.py)
\* What an injected step callable does when called: it raises, or hands back
\* a ToolOutput: ok with a dict, ok with no data, ok with data that is no
\* dict, a failure with its error, or a failure without one
StepCallables ==
    {[raises |-> TRUE, out |-> NoResult]}
    \cup [raises : {FALSE},
          out : {ToolOutputOk(PyDict(<< <<"k", "v">> >>)),
                 [success |-> TRUE, data |-> Absent, error |-> Absent],
                 ToolOutputOk(PyStr(<<"text">>)),
                 ToolOutputFail(<<"step failed">>),
                 NoResult}]

\* Optional[Callable]: None or a callable
OptionalStepCallables == {Absent} \cup {Some(f) : f \in StepCallables}

\* lines 152, 160, 168, 176: the result of a step no callable is injected for
DefaultResult(step_name) ==
    CASE step_name = "change_request" -> ToolOutputOk(PyDict(<< <<"ticket_id", "CR">> >>))
      [] step_name = "preflight_backup" -> ToolOutputOk(PyDict(<< <<"backup", "skipped">> >>))
      [] step_name = "patch_execution" -> ToolOutputOk(PyDict(<< <<"status", "patch_applied">> >>))
      [] OTHER -> ToolOutputOk(PyDict(<< <<"validation", "passed">> >>))

\* line 145: result.data if result.success else (error.model_dump() if error else None)
StepDetails(result) ==
    IF result.success THEN result.data
    ELSE IF result.error /= Absent THEN Some(PyDict(<< <<"message", result.error[1]>> >>))
    ELSE Absent

\* PatchingStepResult.details is Optional[Dict[str, Any]]: anything else
\* fails validation
DetailsValidate(details) == details = Absent \/ details[1].type = "dict"

PatchingStepResult(step_name, result) ==
    [step |-> step_name, success |-> result.success, details |-> StepDetails(result)]

\* line 182
ReportStatus(steps) ==
    IF \A i \in 1..Len(steps) : steps[i].success THEN "success" ELSE "requires_attention"

\* _report
PatchingWorkflowReport(device, target_os_version, steps) ==
    [device |-> device, target_os_version |-> target_os_version,
     status |-> ReportStatus(steps), steps |-> steps]

StopsNever(result) == FALSE

\* lines 154, 162, 170: if not result.success: return
Stops(result) == ~result.success

NoWorkflow == [op |-> "none", device |-> "r1", target_os_version |-> "none",
               image_path |-> "none", steps |-> << >>, invoked |-> << >>]

\* A tool constructed with any combination of injected callables
InitPatching ==
    /\ env \in [change_request_factory : OptionalStepCallables,
                config_backup : OptionalStepCallables,
                patch_executor : OptionalStepCallables,
                post_validation : OptionalStepCallables]
    /\ repo = FALSE
    /\ file = [d \in Devices |-> Absent]
    /\ index = [d \in Devices |-> Absent]
    /\ head = [d \in Devices |-> Absent]
    /\ versions = << >>
    /\ pc = [p \in Procs |-> "idle"]
    /\ call = [p \in Procs |-> NoWorkflow]
    /\ res = [proc |-> 0, out |-> NoResult, raised |-> Absent, call |-> NoWorkflow]
    /\ last = [d \in Devices |-> Absent]

\* execute_patching_workflow(device, target_os_version, image_path): entry
ExecutePatchingWorkflow(p, device, target_os_version, image_path) ==
    /\ pc[p] = "idle"
    /\ res.proc = 0
    /\ call' = [call EXCEPT ![p] =
                  [NoWorkflow EXCEPT !.op = "execute_patching_workflow", !.device = device,
                                     !.target_os_version = target_os_version,
                                     !.image_path = image_path]]
    /\ pc' = [pc EXCEPT ![p] = "change_request"]
    /\ UNCHANGED <<env, repo, file, index, head, versions, res, last>>

\* The call ends: c holds its locals at that point
WorkflowEnds(p, c, out, raised) ==
    /\ res' = [proc |-> p, out |-> out, raised |-> raised, call |-> c]
    /\ pc' = [pc EXCEPT ![p] = "idle"]
    /\ call' = [call EXCEPT ![p] = NoWorkflow]

\* What the step's callable yields, or the default when none is injected
StepResult(step_name, callable) ==
    IF callable = Absent THEN DefaultResult(step_name) ELSE callable[1].out

\* The call's locals once the step's callable was called (invoked is the
\* history of the callables that were called) and its result recorded
Invoked(c, step_name, callable) ==
    [c EXCEPT !.invoked = IF callable = Absent THEN @ ELSE Append(@, step_name)]

Recorded(c, step_name, callable) ==
    [Invoked(c, step_name, callable) EXCEPT
       !.steps = Append(@, PatchingStepResult(step_name, StepResult(step_name, callable)))]

\* One step of the workflow: call the callable (or take the default), record
\* the result, return the report after a failure or after the last step
RunStep(p, step_name, callable, next) ==
    /\ pc[p] = step_name
    /\ IF callable /= Absent /\ callable[1].raises
       THEN WorkflowEnds(p, Invoked(call[p], step_name, callable), NoResult,
                         Some("Exception"))
       ELSE IF ~DetailsValidate(StepDetails(StepResult(step_name, callable)))
       THEN WorkflowEnds(p, Invoked(call[p], step_name, callable), NoResult,
                         Some("ValidationError"))
       ELSE IF Stops(StepResult(step_name, callable)) \/ next = "idle"
       THEN WorkflowEnds(p, Recorded(call[p], step_name, callable),
                         ToolOutputOk(PatchingWorkflowReport(
                             call[p].device, call[p].target_os_version,
                             Recorded(call[p], step_name, callable).steps)),
                         Absent)
       ELSE /\ call' = [call EXCEPT ![p] = Recorded(call[p], step_name, callable)]
            /\ pc' = [pc EXCEPT ![p] = next]
            /\ UNCHANGED res
    /\ UNCHANGED <<env, repo, file, index, head, versions, last>>

\* lines 149-155
ChangeRequest(p) ==
    RunStep(p, "change_request", env.change_request_factory, "preflight_backup")

\* lines 157-163
PreflightBackup(p) ==
    RunStep(p, "preflight_backup", env.config_backup, "patch_execution")

\* lines 165-171
PatchExecution(p) ==
    RunStep(p, "patch_execution", env.patch_executor, "post_validation")

\* lines 173-179
PostValidation(p) ==
    RunStep(p, "post_validation", env.post_validation, "idle")

NextPatching ==
    \/ ExecutePatchingWorkflow(1, "r1", "v2", "image")
    \/ ChangeRequest(1)
    \/ PreflightBackup(1)
    \/ PatchExecution(1)
    \/ PostValidation(1)

SpecPatching == InitPatching /\ [][NextPatching]_vars

StepOrder == <<"change_request", "preflight_backup", "patch_execution", "post_validation">>

StepIndex(name) == CHOOSE i \in 1..4 : StepOrder[i] = name

\* The recorded steps are the first steps of the order, none but the last
\* failed, and a callable was called only after every step before its own
\* was recorded as succeeded, each at most once and in the order.
InOrder(c) ==
    /\ Len(c.steps) <= 4
    /\ \A i \in 1..Len(c.steps) :
          /\ c.steps[i].step = StepOrder[i]
          /\ i < Len(c.steps) => c.steps[i].success
    /\ \A k \in 1..Len(c.invoked) :
          /\ c.invoked[k] \in {StepOrder[i] : i \in 1..4}
          /\ \A j \in 1..(StepIndex(c.invoked[k]) - 1) :
                j <= Len(c.steps) /\ c.steps[j].success
          /\ \A l \in 1..(k - 1) : StepIndex(c.invoked[l]) < StepIndex(c.invoked[k])

WorkflowReported == res.proc /= 0 /\ res.raised = Absent

\* C30: at every point of a workflow call, and in what it returns, the steps
\* recorded are a prefix of change_request, preflight_backup,
\* patch_execution, post_validation in which only the last may have failed;
\* a callable (the patch executor among them) is called only after all
\* earlier steps succeeded; the call returns a successful ToolOutput whose
\* report carries the recorded steps, ends with a failed step when it has
\* fewer than four, and has status success exactly when it has four steps
\* that all succeeded, requires_attention otherwise.
C30_StepsInOrderStopAtFirstFailure ==
    /\ \A p \in Procs : InOrder(call[p])
    /\ InOrder(res.call)
    /\ WorkflowReported
       => /\ res.out.success
          /\ res.out.data[1].steps = res.call.steps
          /\ Len(res.call.steps) >= 1
          /\ Len(res.call.steps) < 4 => ~res.call.steps[Len(res.call.steps)].success
          /\ res.out.data[1].status \in {"success", "requires_attention"}
          /\ res.out.data[1].status = "success"
             <=> /\ Len(res.call.steps) = 4
                 /\ \A i \in 1..4 : res.call.steps[i].success

\* The backup failed with a patch executor injected: the workflow returned
\* after two steps without calling it.
C30_Witness ==
    /\ WorkflowReported
    /\ env.patch_executor /= Absent
    /\ env.config_backup /= Absent
    /\ Len(res.call.steps) = 2
    /\ res.call.steps[1].success
    /\ ~res.call.steps[2].success
    /\ res.call.invoked = <<"preflight_backup">>
    /\ res.out.data[1].status = "requires_attention"

\* ---------------------------------------------- NetworkInteractionToolset
\* (network_automation_agents/tools/network_interaction.py)
\* Model-agnostic paths a caller asks for
Paths == {"p1", "p2"}

\* Optional[Dict[str, str]]: None, or the dict's items
PathMaps ==
    {Absent, Some(<< >>), Some(<< <<"p1", "native1">> >>), Some(<< <<"p1", "">> >>)}

\* DeviceCapabilities as the resolver hands them back
DeviceCapabilities ==
    [supports_gnmi : BOOLEAN, supports_netconf : BOOLEAN, supports_snmp : BOOLEAN,
     gnmi_paths : PathMaps \ {Some(<< <<"p1", "">> >>)},
     netconf_paths : PathMaps \ {Some(<< <<"p1", "">> >>)},
     snmp_oids : PathMaps]

\* dict.get(key): the value's option
RECURSIVE ItemsGet(_, _)
ItemsGet(items, key) ==
    IF items = << >> THEN Absent
    ELSE IF Head(items)[1] = key THEN Some(Head(items)[2])
    ELSE ItemsGet(Tail(items), key)

\* (mapping or {}).get(key)
MapGet(mapping, key) == IF mapping = Absent THEN Absent ELSE ItemsGet(mapping[1], key)

\* (mapping or {}).get(key, default)
MapGetOr(mapping, key, default) ==
    IF MapGet(mapping, key) = Absent THEN default ELSE MapGet(mapping, key)[1]

GetOperationalStateNetconfFirst(capabilities, device, path) ==
    IF capabilities.supports_netconf
    THEN ToolOutputOk([protocol |-> "NETCONF",
                       path |-> MapGetOr(capabilities.netconf_paths, path, path)])
    ELSE IF capabilities.supports_gnmi
    THEN ToolOutputOk([protocol |-> "gNMI",
                       path |-> MapGetOr(capabilities.gnmi_paths, path, path)])
    ELSE IF capabilities.supports_snmp
    THEN IF MapGetOr(capabilities.snmp_oids, path, "") = ""
         THEN ToolOutputFail(<<"Requested path unavailable via SNMP">>)
         ELSE ToolOutputOk([protocol |-> "SNMP",
                            oid |-> MapGet(capabilities.snmp_oids, path)[1]])
    ELSE ToolOutputFail(<<"No supported protocol for device">>)

\* get_operational_state, lines 48-60, on the resolver's capabilities
GetOperationalState(capabilities, device, path) ==
    IF capabilities.supports_gnmi
    THEN ToolOutputOk([protocol |-> "gNMI",
                       path |-> MapGetOr(capabilities.gnmi_paths, path, path)])
    ELSE IF capabilities.supports_netconf
    THEN ToolOutputOk([protocol |-> "NETCONF",
                       path |-> MapGetOr(capabilities.netconf_paths, path, path)])
    ELSE IF capabilities.supports_snmp
    THEN IF MapGetOr(capabilities.snmp_oids, path, "") = ""
         THEN ToolOutputFail(<<"Requested path unavailable via SNMP">>)
         ELSE ToolOutputOk([protocol |-> "SNMP",
                            oid |-> MapGet(capabilities.snmp_oids, path)[1]])
    ELSE ToolOutputFail(<<"No supported protocol for device">>)

NoQuery == [op |-> "none", device |-> "r1", path |-> "p1"]

\* A ConfigurationManagementAgent over an injected resolver that answers
\* capabilities for every device
InitState ==
    /\ env \in [capabilities : DeviceCapabilities]
    /\ repo = FALSE
    /\ file = [d \in Devices |-> Absent]
    /\ index = [d \in Devices |-> Absent]
    /\ head = [d \in Devices |-> Absent]
    /\ versions = << >>
    /\ pc = [p \in Procs |-> "idle"]
    /\ call = [p \in Procs |-> NoQuery]
    /\ res = [proc |-> 0, out |-> NoResult, raised |-> Absent, call |-> NoQuery]
    /\ last = [d \in Devices |-> Absent]

\* ConfigurationManagementAgent.check_operational_state(device, path): the
\* toolset built over the agent's resolver answers the query
CheckOperationalState(p, device, path) ==
    /\ res' = [proc |-> p,
               out |-> GetOperationalState(env.capabilities, device, path),
               raised |-> Absent,
               call |-> [op |-> "check_operational_state", device |-> device,
                         path |-> path]]
    /\ UNCHANGED <<env, repo, file, index, head, versions, pc, call, last>>

NextState == \E device \in Devices, path \in Paths : CheckOperationalState(1, device, path)

SpecState == InitState /\ [][NextState]_vars

Queried == res.call.op = "check_operational_state"

\* The requested path has a non-empty entry in the device's OID mapping.
HasOid ==
    /\ env.capabilities.snmp_oids /= Absent
    /\ \E k \in 1..Len(env.capabilities.snmp_oids[1]) :
          /\ env.capabilities.snmp_oids[1][k][1] = res.call.path
          /\ env.capabilities.snmp_oids[1][k][2] /= ""

\* C25: the protocol of the answer follows the priority gNMI, NETCONF, SNMP
\* over the resolver's capabilities: gNMI support gives a gNMI answer;
\* NETCONF without gNMI gives a NETCONF answer; SNMP answers only when
\* neither is supported, and then succeeds exactly when the path has an OID;
\* a device supporting none of the three gets a failure.
C25_ProtocolPriority ==
    Queried
    => /\ env.capabilities.supports_gnmi
          => res.out.success /\ res.out.data[1].protocol = "gNMI"
       /\ (~env.capabilities.supports_gnmi /\ env.capabilities.supports_netconf)
          => res.out.success /\ res.out.data[1].protocol = "NETCONF"
       /\ (res.out.success /\ res.out.data[1].protocol = "SNMP")
          => /\ ~env.capabilities.supports_gnmi
             /\ ~env.capabilities.supports_netconf
             /\ env.capabilities.supports_snmp
       /\ (~env.capabilities.supports_gnmi /\ ~env.capabilities.supports_netconf
             /\ env.capabilities.supports_snmp)
          => /\ res.out.success <=> HasOid
             /\ res.out.success => res.out.data[1].protocol = "SNMP"
       /\ (~env.capabilities.supports_gnmi /\ ~env.capabilities.supports_netconf
             /\ ~env.capabilities.supports_snmp)
          => ~res.out.success

\* The NETCONF-only device: answered over NETCONF with the path as asked.
C25_Witness ==
    /\ Queried
    /\ ~env.capabilities.supports_gnmi
    /\ env.capabilities.supports_netconf
    /\ ~env.capabilities.supports_snmp
    /\ env.capabilities.netconf_paths = Absent
    /\ res.out = ToolOutputOk([protocol |-> "NETCONF", path |-> res.call.path])

\* ------------------------------------------------------------ crew_setup
\* (network_automation_agents/crew_setup.py)
\* An agent: which object it is, its role, and the resolver it was given
Agent(id, role, capability_resolver) ==
    [id |-> id, role |-> role, capability_resolver |-> capability_resolver]

\* line 97
ConductorAgent == Agent("conductor", "Conductor AI Agent", Absent)

\* Agents a caller may pass as extra_agents: one with a role of its own, one
\* (say an instance of a subclass of LifecycleManagementAgent) with the role
\* of a built-in specialist
ExtraAgents ==
    { Agent("custom", "Custom Agent", Absent),
      Agent("lifecycle2", "Lifecycle Management Agent", Absent) }

\* Optional[Sequence[AbstractNetworkAgent]]
ExtraAgentLists ==
    {Absent, Some(<< >>)}
    \cup {Some(<<a>>) : a \in ExtraAgents}
    \cup {Some(<<a, b>>) : a, b \in ExtraAgents}

\* _default_capability_resolver and an injected one
CapabilityResolvers == {Absent, Some("resolver")}

\* line 95
ResolvedResolver(capability_resolver) ==
    IF capability_resolver = Absent THEN "_default_capability_resolver"
    ELSE capability_resolver[1]

\* _materialize_agents
MaterializeAgents(capability_resolver, extra_agents) ==
    << Agent("discovery", "Discovery & Inventory Agent", Absent),
       Agent("data_collection", "Data Collection Agent", Absent),
       Agent("configuration", "Configuration Management Agent", Some(capability_resolver)),
       Agent("performance", "Performance Monitoring Agent", Absent),
       Agent("lifecycle", "Lifecycle Management Agent", Absent) >>
    \o (IF extra_agents = Absent THEN << >> ELSE extra_agents[1])

\* line 100: {agent.role: agent for agent in specialists}: a later agent
\* replaces an earlier one of the same role
SpecialistsByRole(specialists) ==
    [r \in {specialists[i].role : i \in 1..Len(specialists)} |->
        specialists[CHOOSE i \in 1..Len(specialists) :
                       /\ specialists[i].role = r
                       /\ \A j \in (i + 1)..Len(specialists) : specialists[j].role /= r]]

\* line 102, with crewai's Process
ProcessValue(crew_process) ==
    IF crew_process /= Absent THEN crew_process[1] ELSE "hierarchical"

\* lines 104-110
Crew(conductor, specialists, process, verbose) ==
    [agents |-> <<conductor>> \o specialists, manager_agent |-> conductor,
     tasks |-> << >>, process |-> process, verbose |-> verbose]

\* line 112
NetworkOperationsCrew(crew, conductor, specialists) ==
    [crew |-> crew, conductor |-> conductor, specialists |-> specialists]

NoBuild == [op |-> "none", capability_resolver |-> Absent, extra_agents |-> Absent,
            crew_process |-> Absent, crew_verbose |-> FALSE]

NoBundle == NetworkOperationsCrew(Crew(ConductorAgent, << >>, "none", FALSE),
                                  ConductorAgent, << >>)

\* The module as imported: Crew and Process are crewai's (or a crew class
\* put in their place, as the tests do), or the fallback of lines 15-19
\* where both are `object`; and the arguments of the call to come
InitCrew ==
    /\ env \in [crewai : BOOLEAN, capability_resolver : CapabilityResolvers,
                extra_agents : ExtraAgentLists,
                crew_process : {Absent, Some("sequential"), Some("hierarchical")},
                crew_verbose : BOOLEAN]
    /\ repo = FALSE
    /\ file = [d \in Devices |-> Absent]
    /\ index = [d \in Devices |-> Absent]
    /\ head = [d \in Devices |-> Absent]
    /\ versions = << >>
    /\ pc = [p \in Procs |-> "idle"]
    /\ call = [p \in Procs |-> NoBuild]
    /\ res = [proc |-> 0, bundle |-> NoBundle, raised |-> Absent, call |-> NoBuild]
    /\ last = [d \in Devices |-> Absent]

\* build_network_operations_super_crew(settings, capability_resolver=...,
\* extra_agents=..., crew_process=..., crew_verbose=...); without crewai,
\* Crew(...) is object(...) with keyword arguments, a TypeError
BuildNetworkOperationsSuperCrew(p, capability_resolver, extra_agents, crew_process, crew_verbose) ==
    /\ res.proc = 0
    /\ res' = [proc |-> p,
               bundle |->
                  IF ~env.crewai THEN NoBundle
                  ELSE NetworkOperationsCrew(
                         Crew(ConductorAgent,
                              MaterializeAgents(ResolvedResolver(capability_resolver),
                                                extra_agents),
                              ProcessValue(crew_process), crew_verbose),
                         ConductorAgent,
                         SpecialistsByRole(
                              MaterializeAgents(ResolvedResolver(capability_resolver),
                                                extra_agents))),
               raised |-> IF ~env.crewai THEN Some("TypeError") ELSE Absent,
               call |-> [op |-> "build_network_operations_super_crew",
                         capability_resolver |-> capability_resolver,
                         extra_agents |-> extra_agents, crew_process |-> crew_process,
                         crew_verbose |-> crew_verbose]]
    /\ UNCHANGED <<env, repo, file, index, head, versions, pc, call, last>>

NextCrew ==
    BuildNetworkOperationsSuperCrew(1, env.capability_resolver, env.extra_agents,
                                    env.crew_process, env.crew_verbose)

SpecCrew == InitCrew /\ [][NextCrew]_vars

BuildCalled == res.call.op = "build_network_operations_super_crew"

BuiltInRoles ==
    {"Discovery & Inventory Agent", "Data Collection Agent",
     "Configuration Management Agent", "Performance Monitoring Agent",
     "Lifecycle Management Agent"}

CrewAgents == {res.bundle.crew.agents[i] : i \in 1..Len(res.bundle.crew.agents)}

\* The agents of the crew other than the conductor
CrewSpecialists ==
    {res.bundle.crew.agents[i] : i \in 2..Len(res.bundle.crew.agents)}

PassedExtras ==
    IF res.call.extra_agents = Absent THEN {}
    ELSE {res.call.extra_agents[1][i] : i \in 1..Len(res.call.extra_agents[1])}

\* C26: every call builds a crew: its manager is the conductor, its agents
\* hold the conductor, a specialist of each built-in role and every extra
\* agent passed, its process is the one passed or else the hierarchical
\* one, and the bundle resolves every specialist of the crew by its role.
C26_CrewHoldsConductorAndSpecialists ==
    BuildCalled
    => /\ res.raised = Absent
       /\ res.bundle.crew.manager_agent = res.bundle.conductor
       /\ res.bundle.conductor.role = "Conductor AI Agent"
       /\ res.bundle.conductor \in CrewAgents
       /\ \A r \in BuiltInRoles : \E a \in CrewSpecialists : a.role = r
       /\ PassedExtras \subseteq CrewSpecialists
       /\ res.bundle.crew.process = (IF res.call.crew_process = Absent THEN "hierarchical"
                                     ELSE res.call.crew_process[1])
       /\ \A a \in CrewSpecialists :
             /\ a.role \in DOMAIN res.bundle.specialists
             /\ res.bundle.specialists[a.role] = a

\* ------------------------------------- audits and drift checks, interleaved
\* The callers that audit and check drift side by side
Readers == {1, 2}

RequiredA == ComplianceRule("R1", "d1", Regex(TRUE, <<"a">>, TRUE), "required")

ForbiddenAA == ComplianceRule("R2", "d2", Regex(FALSE, <<"a", "a">>, FALSE), "forbidden")

OptionalA == ComplianceRule("R4", "d4", Regex(FALSE, <<"a">>, FALSE), "optional")

\* One audit tool (pol1 registered with a rule or not, a loader or none) and
\* one drift tool (patterns, two sources) next to a store
InitReaders ==
    InitWith([gitpython : {TRUE}, valid : {TRUE}, serializer : {FALSE},
              ignore_patterns : {<< >>, << [anchored |-> TRUE, lit |-> <<"n", "t", "p">>] >>},
              running_config_fetcher : {Bare(PyStr(<<"h", "R", "1", NL, "n", "t", "p">>)),
                                        Wrapped(ToolOutputFail(<<"source failed">>))},
              baseline_loader : {Bare(PyStr(<<"h", "R", "1">>)), Bare(PyNone)},
              policy_rules : {[n \in PolicyNames |-> IF n = "pol1" THEN rs ELSE Absent] :
                                 rs \in {Absent, Some(<<RequiredA>>)}},
              rule_loader : {Absent, Some([raises |-> TRUE, rules |-> << >>]),
                             Some([raises |-> FALSE, rules |-> <<OptionalA>>])}])

NoRead == [op |-> "none", device |-> "r1", config_content |-> << >>,
           policy_name |-> "pol1", extra_rules |-> Absent, rules |-> << >>,
           loader_calls |-> << >>, running |-> NoResult, baseline |-> NoResult,
           overlapped |-> FALSE]

\* History: another caller's operation was under way when this one began
Overlaps(p) == \E q \in Readers \ {p} : pc[q] \notin {"idle", "done"}

\* History: the operation that finished just before
Earlier ==
    IF res.proc = 0 THEN Absent
    ELSE Some([op |-> res.call.op, policy_name |-> res.call.policy_name,
               extra_rules |-> res.call.extra_rules, out |-> res.out])

\* The caller's operation returns out
ReadEnds(p, out) ==
    /\ res' = [proc |-> p, out |-> out, raised |-> Absent, call |-> call[p],
               earlier |-> Earlier]
    /\ pc' = [pc EXCEPT ![p] = "done"]
    /\ call' = [call EXCEPT ![p] = NoRead]

\* audit_config(config_content, policy_name, extra_rules): entry
AuditEnter(p, config_content, policy_name, extra_rules) ==
    /\ pc[p] = "idle"
    /\ call' = [call EXCEPT ![p] =
                  [NoRead EXCEPT !.op = "audit_config", !.config_content = config_content,
                                 !.policy_name = policy_name, !.extra_rules = extra_rules,
                                 !.overlapped = Overlaps(p)]]
    /\ pc' = [pc EXCEPT ![p] = "get_rules"]
    /\ UNCHANGED <<env, repo, file, index, head, versions, res, last>>

\* line 229: rules = list(self._policy_rules.get(policy_name, []))
AuditGetRules(p) ==
    /\ pc[p] = "get_rules"
    /\ call' = [call EXCEPT ![p].rules = RegisteredRules(env.policy_rules,
                                                         call[p].policy_name)]
    /\ pc' = [pc EXCEPT ![p] = "load_rules"]
    /\ UNCHANGED <<env, repo, file, index, head, versions, res, last>>

\* lines 230-235
AuditLoadRules(p) ==
    /\ pc[p] = "load_rules"
    /\ IF LoadRules(call[p].rules, env.rule_loader, call[p].policy_name).failed
       THEN ReadEnds(p, ToolOutputFail(<<"Failed to load compliance rules">>))
       ELSE /\ call' = [call EXCEPT
                          ![p].rules = LoadRules(call[p].rules, env.rule_loader,
                                                 call[p].policy_name).rules,
                          ![p].loader_calls = LoadRules(call[p].rules, env.rule_loader,
                                                        call[p].policy_name).calls]
            /\ pc' = [pc EXCEPT ![p] = "extend_rules"]
            /\ UNCHANGED res
    /\ UNCHANGED <<env, repo, file, index, head, versions, last>>

AuditExtendRulesInPlace(p) ==
    /\ pc[p] = "extend_rules"
    /\ call' = [call EXCEPT ![p].rules = ExtendWithExtra(@, call[p].extra_rules)]
    /\ env' = IF env.policy_rules[call[p].policy_name] = Absent THEN env
              ELSE [env EXCEPT !.policy_rules[call[p].policy_name] =
                      Some(ExtendWithExtra(call[p].rules, call[p].extra_rules))]
    /\ pc' = [pc EXCEPT ![p] = "evaluate"]
    /\ UNCHANGED <<repo, file, index, head, versions, res, last>>

\* lines 236-237: the extra rules go to the call's own list
AuditExtendRules(p) ==
    /\ pc[p] = "extend_rules"
    /\ call' = [call EXCEPT ![p].rules = ExtendWithExtra(@, call[p].extra_rules)]
    /\ pc' = [pc EXCEPT ![p] = "evaluate"]
    /\ UNCHANGED <<env, repo, file, index, head, versions, res, last>>

\* lines 238-266
AuditEvaluate(p) ==
    /\ pc[p] = "evaluate"
    /\ IF NoRules(call[p].rules)
       THEN ReadEnds(p, ToolOutputFail(<<"No compliance rules defined">>))
       ELSE ReadEnds(p, ToolOutputOk(ComplianceReport(
                          call[p].policy_name,
                          IsCompliant(Flatten(Segments(call[p].rules, call[p].config_content))),
                          Flatten(Segments(call[p].rules, call[p].config_content)))))
    /\ UNCHANGED <<env, repo, file, index, head, versions, last>>

\* detect_drift(device): entry
DriftEnter(p, d) ==
    /\ pc[p] = "idle"
    /\ call' = [call EXCEPT ![p] = [NoRead EXCEPT !.op = "detect_drift", !.device = d,
                                                  !.overlapped = Overlaps(p)]]
    /\ pc' = [pc EXCEPT ![p] = "running"]
    /\ UNCHANGED <<env, repo, file, index, head, versions, res, last>>

\* lines 140-142
DriftRunning(p) ==
    /\ pc[p] = "running"
    /\ IF ~Resolve(env.running_config_fetcher, "running_config").success
       THEN ReadEnds(p, Resolve(env.running_config_fetcher, "running_config"))
       ELSE /\ call' = [call EXCEPT
                          ![p].running = Resolve(env.running_config_fetcher, "running_config")]
            /\ pc' = [pc EXCEPT ![p] = "baseline"]
            /\ UNCHANGED res
    /\ UNCHANGED <<env, repo, file, index, head, versions, last>>

\* lines 143-145
DriftBaseline(p) ==
    /\ pc[p] = "baseline"
    /\ IF ~Resolve(env.baseline_loader, "baseline_config").success
       THEN ReadEnds(p, Resolve(env.baseline_loader, "baseline_config"))
       ELSE /\ call' = [call EXCEPT
                          ![p].baseline = Resolve(env.baseline_loader, "baseline_config")]
            /\ pc' = [pc EXCEPT ![p] = "compare"]
            /\ UNCHANGED res
    /\ UNCHANGED <<env, repo, file, index, head, versions, last>>

\* The diff of the call's two texts under the tool's patterns
DriftDiffLines(c, patterns) ==
    UnifiedDiff(BaselineLines(c.baseline, patterns), RunningLines(c.running, patterns),
                "baseline", "running")

\* lines 147-165
DriftCompare(p) ==
    /\ pc[p] = "compare"
    /\ ReadEnds(p, ToolOutputOk(ConfigDriftOutput(
                      call[p].device,
                      IsDrifted(DriftDiffLines(call[p], env.ignore_patterns)),
                      DiffText(IsDrifted(DriftDiffLines(call[p], env.ignore_patterns)),
                               DriftDiffLines(call[p], env.ignore_patterns)))))
    /\ UNCHANGED <<env, repo, file, index, head, versions, last>>

\* Two callers, each running one audit or one drift check, step by step and
\* in any interleaving
NextReaders ==
    \/ \E p \in Readers, t \in {<<"a">>, <<"a", "a">>},
          x \in {Absent, Some(<<ForbiddenAA>>)} : AuditEnter(p, t, "pol1", x)
    \/ \E p \in Readers : AuditGetRules(p)
    \/ \E p \in Readers : AuditLoadRules(p)
    \/ \E p \in Readers : AuditExtendRules(p)
    \/ \E p \in Readers : AuditEvaluate(p)
    \/ \E p \in Readers, d \in BackupDevices : DriftEnter(p, d)
    \/ \E p \in Readers : DriftRunning(p)
    \/ \E p \in Readers : DriftBaseline(p)
    \/ \E p \in Readers : DriftCompare(p)

SpecReaders == InitReaders /\ [][NextReaders]_vars

\* What the audit returns when it runs alone on the tool as constructed
AuditAlone(c) ==
    IF LoadRules(RegisteredRules(env.policy_rules, c.policy_name), env.rule_loader,
                 c.policy_name).failed
    THEN ToolOutputFail(<<"Failed to load compliance rules">>)
    ELSE IF ExtendWithExtra(LoadRules(RegisteredRules(env.policy_rules, c.policy_name),
                                      env.rule_loader, c.policy_name).rules,
                            c.extra_rules) = << >>
    THEN ToolOutputFail(<<"No compliance rules defined">>)
    ELSE ToolOutputOk(ComplianceReport(
            c.policy_name,
            Flatten(Segments(ExtendWithExtra(
                LoadRules(RegisteredRules(env.policy_rules, c.policy_name),
                          env.rule_loader, c.policy_name).rules,
                c.extra_rules), c.config_content)) = << >>,
            Flatten(Segments(ExtendWithExtra(
                LoadRules(RegisteredRules(env.policy_rules, c.policy_name),
                          env.rule_loader, c.policy_name).rules,
                c.extra_rules), c.config_content))))

\* What the drift check returns when it runs alone
DriftAlone(c) ==
    IF DriftSources(env.running_config_fetcher, env.baseline_loader).failure /= Absent
    THEN DriftSources(env.running_config_fetcher, env.baseline_loader).failure[1]
    ELSE ToolOutputOk(ConfigDriftOutput(
            c.device,
            IsDrifted(UnifiedDiff(
                BaselineLines(Resolve(env.baseline_loader, "baseline_config"),
                              env.ignore_patterns),
                RunningLines(Resolve(env.running_config_fetcher, "running_config"),
                             env.ignore_patterns), "baseline", "running")),
            DiffText(
                IsDrifted(UnifiedDiff(
                    BaselineLines(Resolve(env.baseline_loader, "baseline_config"),
                                  env.ignore_patterns),
                    RunningLines(Resolve(env.running_config_fetcher, "running_config"),
                                 env.ignore_patterns), "baseline", "running")),
                UnifiedDiff(
                    BaselineLines(Resolve(env.baseline_loader, "baseline_config"),
                                  env.ignore_patterns),
                    RunningLines(Resolve(env.running_config_fetcher, "running_config"),
                                 env.ignore_patterns), "baseline", "running"))))

ReadReturned == res.proc /= 0

EvaluatedRules == {res.call.rules[i] : i \in 1..Len(res.call.rules)}

OwnExtras ==
    IF res.call.extra_rules = Absent THEN {}
    ELSE {res.call.extra_rules[1][i] : i \in 1..Len(res.call.extra_rules[1])}

EarlierExtras ==
    IF res.earlier[1].extra_rules = Absent THEN {}
    ELSE {res.earlier[1].extra_rules[1][i] : i \in 1..Len(res.earlier[1].extra_rules[1])}

\* C21: no step of an audit or a drift check changes the tool (registered
\* rules, loader, patterns, sources) or the store; whatever the interleaving,
\* an audit and a drift check return what they return when run alone; and an
\* audit that follows an audit of the same policy evaluates none of the
\* earlier audit's extra rules unless they are its own.
C21_AuditsAndDriftChecksArePureReads ==
    /\ [](ReadReturned
          => /\ res.call.op = "audit_config" => res.out = AuditAlone(res.call)
             /\ res.call.op = "detect_drift" => res.out = DriftAlone(res.call)
             /\ (/\ res.call.op = "audit_config"
                 /\ res.earlier /= Absent
                 /\ res.earlier[1].op = "audit_config"
                 /\ res.earlier[1].policy_name = res.call.policy_name)
                => (EarlierExtras \ OwnExtras) \cap EvaluatedRules = {})
    /\ [][/\ env' = env
          /\ UNCHANGED <<repo, file, index, head, versions, last>>]_vars

\* Two audits of pol1 overlapped: the one that passed an extra rule returned
\* (with a violation of it) first, and the other, begun meanwhile and passing
\* none, finished after it with a report that holds no violation of that rule
\* on a text that matches it.
C21_Witness ==
    /\ ReadReturned
    /\ res.call.op = "audit_config"
    /\ res.call.overlapped
    /\ res.call.extra_rules = Absent
    /\ res.call.config_content = <<"a", "a">>
    /\ res.earlier /= Absent
    /\ res.earlier[1].op = "audit_config"
    /\ res.earlier[1].extra_rules = Some(<<ForbiddenAA>>)
    /\ res.earlier[1].out.success
    /\ ~res.earlier[1].out.data[1].is_compliant
    /\ env.policy_rules["pol1"] = Some(<<RequiredA>>)
    /\ res.out.success
    /\ res.out.data[1].violations = <<ComplianceViolation("R1", "d1", Absent, "missing_required")>>
    /\ \A p \in Readers : pc[p] = "done"

====
